---- MODULE Spec2Model ----
(***************************************************************************)
(* A model of the Fuzzhead lambda handler (lambda-handler.mjs) together    *)
(* with its logger (logger.js) and error helpers (errors.js).              *)
(*                                                                         *)
(* One handler invocation, in code mode or in repo mode, is followed from  *)
(* the reset of the module-level transcript to the returned envelope; the  *)
(* validation of the request (validation.js) is part of it.  The steps are *)
(* cut at the await points of the code.  Text is modelled as a sequence of *)
(* string pieces (concatenation is \o), a JavaScript value as a tagged     *)
(* record.                                                                 *)
(***************************************************************************)
EXTENDS Integers, Sequences, FiniteSets, TLC

\* ------------------------------------------------------------- bounds
\* the largest number of members a class declaration of the input has
MaxMembers == 2
\* the largest number of files a search of the repository lists
MaxFiles == 3

\* ------------------------------------------------- program constants
StringKeyword == 152
NumberKeyword == 148
BooleanKeyword == 136
AnyKeyword == 131

\* ------------------------------------------------- JavaScript values
\* a value: t is its runtime type; s the text of a string (or the class
\* name of an object); n the number
JsUndefined == [t |-> "undefined", s |-> <<>>, n |-> 0]
JsNull == [t |-> "null", s |-> <<>>, n |-> 0]
JsString(s) == [t |-> "string", s |-> s, n |-> 0]
JsNumber(n) == [t |-> "number", s |-> <<>>, n |-> n]
JsBoolean(b) == [t |-> "boolean", s |-> <<>>, n |-> IF b THEN 1 ELSE 0]

\* something a throw statement can throw: an Error object (of class cls,
\* with a message and, for a FuzzerError, a code), a string, or null
\* details keeps the diagnostics of a CompilationError (the other details,
\* such as a field name or a method name, are left out)
ErrorObject(cls, message, code) ==
    [t |-> "object", cls |-> cls, message |-> message, code |-> code, details |-> <<>>]
ThrownString(s) == [t |-> "string", cls |-> "", message |-> s, code |-> "", details |-> <<>>]
ThrownNull == [t |-> "null", cls |-> "", message |-> <<>>, code |-> "", details |-> <<>>]

\* reading .message of a caught value: a text, or undefined (def = FALSE)
Defined(s) == [def |-> TRUE, s |-> s]
Undefined == [def |-> FALSE, s |-> <<>>]
\* the TypeError of reading a property of null
NullPropertyError ==
    ErrorObject("TypeError", <<"Cannot read properties of null (reading 'message')">>, "")
MessageThrows(e) == e.t = "null"
MessageOf(e) == IF e.t = "object" THEN Defined(e.message) ELSE Undefined
\* `${x}` in a template literal
Template(x) == IF x.def THEN x.s ELSE <<"undefined">>
\* x || fallback, for a text x
OrElse(x, fallback) == IF x.def /\ x.s # <<>> THEN x.s ELSE fallback

\* ---------------------------------------------------------- errors.js
FuzzerErrorClasses ==
    {"FuzzerError", "CompilationError", "ImportError", "ExecutionError",
     "ValidationError", "ResourceError", "TimeoutError"}
\* error instanceof FuzzerError
IsFuzzerError(e) == e.t = "object" /\ e.cls \in FuzzerErrorClasses

\* new ExecutionError(message, methodName, args)
ExecutionError(message) == ErrorObject("ExecutionError", message, "EXECUTION_ERROR")
\* new ValidationError(message, field, value)
ValidationError(message) == ErrorObject("ValidationError", message, "VALIDATION_ERROR")
\* new CompilationError(message, diagnostics)
CompilationError(message, diagnostics) ==
    [ErrorObject("CompilationError", message, "COMPILATION_ERROR") EXCEPT !.details = diagnostics]
\* new ResourceError(message, resource, operation)
ResourceError(message) == ErrorObject("ResourceError", message, "RESOURCE_ERROR")

\* what safeExecute throws when its operation threw `error`: the catch block
\* reads error.message first (a TypeError for null), re-throws a FuzzerError
\* as it is and wraps anything else
SafeExecuteThrown(error) ==
    IF MessageThrows(error) THEN NullPropertyError
    ELSE IF IsFuzzerError(error) THEN error
    ELSE ErrorObject("FuzzerError",
                     OrElse(MessageOf(error), <<"An unexpected error occurred">>),
                     "UNKNOWN_ERROR")

\* a status map that gives every code the status of a success
getStatusCodeAlwaysOk(errorCode) == IF errorCode = "" THEN 200 ELSE 200

\* a status map without the entry of EXECUTION_ERROR
getStatusCodeWithoutExecution(errorCode) ==
    CASE errorCode = "INVALID_INPUT" -> 400
      [] errorCode = "VALIDATION_ERROR" -> 400
      [] errorCode = "COMPILATION_ERROR" -> 422
      [] errorCode = "IMPORT_ERROR" -> 422
      [] errorCode = "RESOURCE_ERROR" -> 503
      [] errorCode = "TIMEOUT_ERROR" -> 408
      [] errorCode = "UNKNOWN_ERROR" -> 500
      [] OTHER -> 500

\* statusCodeMap[errorCode] || 500
getStatusCodeForError(errorCode) ==
    CASE errorCode = "INVALID_INPUT" -> 400
      [] errorCode = "VALIDATION_ERROR" -> 400
      [] errorCode = "COMPILATION_ERROR" -> 422
      [] errorCode = "IMPORT_ERROR" -> 422
      [] errorCode = "EXECUTION_ERROR" -> 422
      [] errorCode = "RESOURCE_ERROR" -> 503
      [] errorCode = "TIMEOUT_ERROR" -> 408
      [] errorCode = "UNKNOWN_ERROR" -> 500
      [] OTHER -> 500

NoSummary == [present |-> FALSE, totalLogs |-> 0, errors |-> 0, warnings |-> 0]
NoError ==
    [present |-> FALSE, message |-> <<>>, code |-> "", type |-> "", timestamp |-> "",
     details |-> <<>>]

\* an envelope of a failure that leaves the transcript out
createErrorResponseWithoutLogs(error, logs) ==
    [statusCode |-> IF IsFuzzerError(error) THEN getStatusCodeForError(error.code) ELSE 500,
     success |-> FALSE,
     message |-> <<>>,
     error |-> [present |-> TRUE,
                message |-> error.message,
                code |-> IF IsFuzzerError(error) THEN error.code ELSE "UNKNOWN_ERROR",
                type |-> error.cls,
                timestamp |-> "toISOString",
                details |-> IF IsFuzzerError(error) THEN error.details ELSE <<>>],
     output |-> <<>>,
     summary |-> NoSummary]

\* the envelope of a failure; logs is the transcript so far
createErrorResponse(error, logs) ==
    [statusCode |-> IF IsFuzzerError(error) THEN getStatusCodeForError(error.code) ELSE 500,
     success |-> FALSE,
     message |-> <<>>,
     error |-> [present |-> TRUE,
                message |-> error.message,
                code |-> IF IsFuzzerError(error) THEN error.code ELSE "UNKNOWN_ERROR",
                type |-> error.cls,
                timestamp |-> "toISOString",
                details |-> IF IsFuzzerError(error) THEN error.details ELSE <<>>],
     output |-> logs,
     summary |-> NoSummary]

\* ---------------------------------------------------------- logger.js
\* Logger.log pushes one entry; about names what the entry is about
LogEntry(level, message, about) == [level |-> level, message |-> message, about |-> about]
Log(logs, level, message, about) == Append(logs, LogEntry(level, message, about))

RECURSIVE CountLevel(_, _)
CountLevel(logs, level) ==
    IF logs = <<>> THEN 0
    ELSE (IF Head(logs).level = level THEN 1 ELSE 0) + CountLevel(Tail(logs), level)

\* a summary that leaves the warnings out
getSummaryWithoutWarnings(entries) ==
    [total |-> Len(entries),
     errors |-> CountLevel(entries, "error"),
     warnings |-> 0]

\* a clear that leaves the entries
clearNothing(entries) == entries

\* Logger.clear
clear(entries) == <<>>

getSummary(logs) ==
    [total |-> Len(logs),
     errors |-> CountLevel(logs, "error"),
     warnings |-> CountLevel(logs, "warn")]

\* ------------------------------------------------------ validation.js
\* A string of a request is a sequence of pieces.  The pieces are chosen so
\* that every test the code makes of a string (a length, a regular
\* expression, includes, startsWith, trim) is decided by the pieces.
GitHubPrefix == "https://github.com/"
PieceLength(piece) ==
    CASE piece = GitHubPrefix -> 19
      [] piece = "javascript:" -> 11
      [] piece = "class Foo {}" -> 12
      [] piece = "let x = 1;" -> 10
      [] piece = "invalid-url" -> 11
      [] piece = "owner" -> 5
      [] piece = "Add.ts" -> 6
      [] piece \in {"repo", "code", "fuzz", "main", "test"} -> 4
      [] piece = "src" -> 3
      [] piece \in {"..", "42"} -> 2
      [] OTHER -> 1
RECURSIVE StringLength(_)
StringLength(s) == IF s = <<>> THEN 0 ELSE PieceLength(Head(s)) + StringLength(Tail(s))

\* the pieces the three replace calls of sanitizeInput delete
Injections == {"<script>x</script>", "javascript:", "onclick="}
RECURSIVE Strip(_)
Strip(s) ==
    IF s = <<>> THEN <<>>
    ELSE IF Head(s) \in Injections THEN Strip(Tail(s))
    ELSE <<Head(s)>> \o Strip(Tail(s))
RECURSIVE Trim(_)
Trim(s) ==
    IF s = <<>> THEN <<>>
    ELSE IF Head(s) = " " THEN Trim(Tail(s))
    ELSE IF s[Len(s)] = " " THEN Trim(SubSeq(s, 1, Len(s) - 1))
    ELSE s
sanitizeInput(input) ==
    IF input.t # "string" THEN input ELSE JsString(Trim(Strip(input.s)))

\* String(value), as RegExp.prototype.test converts its argument
ToText(value) ==
    CASE value.t = "string" -> value.s
      [] value.t = "number" -> <<"42">>
      [] OTHER -> <<value.t>>

\* the character classes of the patterns
NoSlash(piece) == piece \notin {"/", GitHubPrefix}
BranchChars(piece) == piece \in {"owner", "repo", "code", "fuzz", "main", "test", "src", "42", "/"}
PathChars(piece) == BranchChars(piece) \/ piece \in {"..", "Add.ts"}
\* /^https:\/\/github\.com\/[^\/]+\/[^\/]+$/
GitHubPattern(s) ==
    /\ Len(s) >= 4
    /\ s[1] = GitHubPrefix
    /\ \E k \in 3..(Len(s) - 1) :
          /\ s[k] = "/"
          /\ \A i \in 2..Len(s) : i # k => NoSlash(s[i])
\* /^[a-zA-Z0-9\/\-_]+$/
BranchPattern(s) == s # <<>> /\ \A i \in DOMAIN s : BranchChars(s[i])
\* /^[a-zA-Z0-9\/\-_.]+$/
PathPattern(s) == s # <<>> /\ \A i \in DOMAIN s : PathChars(s[i])
\* /^(code|repo)$/
ModePattern(s) == s \in {<<"code">>, <<"repo">>}
PatternTest(pattern, s) ==
    CASE pattern = "repoUrl" -> GitHubPattern(s)
      [] pattern = "branch" -> BranchPattern(s)
      [] pattern = "filePath" -> PathPattern(s)
      [] pattern = "mode" -> ModePattern(s)
      [] OTHER -> TRUE
Includes(s, piece) == \E i \in DOMAIN s : s[i] = piece

\* validationSchemas: minLength 0 and pattern "" stand for a rule without one
Rule(required, pattern, minLength) ==
    [required |-> required, type |-> "string", pattern |-> pattern, minLength |-> minLength]
codeRequest == [code |-> Rule(TRUE, "", 10)]
repoRequest ==
    [repoUrl |-> Rule(TRUE, "repoUrl", 0),
     branch |-> Rule(FALSE, "branch", 0),
     filePath |-> Rule(FALSE, "filePath", 0)]
baseRequest == [mode |-> Rule(FALSE, "mode", 0)]

\* !value
Falsy(value) ==
    \/ value.t \in {"undefined", "null"}
    \/ value.t = "string" /\ StringLength(value.s) = 0
    \/ value.t \in {"number", "boolean"} /\ value.n = 0

\* errors.js validateInput: the messages pushed for one field
FieldErrors(field, value, rules) ==
    (IF rules.required /\ (value.t \in {"undefined", "null"} \/ value = JsString(<<>>))
     THEN <<<<field, "is required">>>> ELSE <<>>)
    \o (IF value.t \in {"undefined", "null"} THEN <<>>
        ELSE (IF value.t # rules.type THEN <<<<field, "must be of type">>>> ELSE <<>>)
             \o (IF rules.pattern # "" /\ ~PatternTest(rules.pattern, ToText(value))
                 THEN <<<<field, "format is invalid">>>> ELSE <<>>)
             \o (IF rules.minLength > 0 /\ value.t = "string"
                    /\ StringLength(value.s) < rules.minLength
                 THEN <<<<field, "must be at least">>>> ELSE <<>>))
\* validateInput throws exactly when some field has an error
validateInput(input, schema) ==
    \E field \in DOMAIN schema : FieldErrors(field, input[field], schema[field]) # <<>>

\* the body of a request: json tells what JSON.parse makes of event.body
RequestFields == {"mode", "code", "repoUrl", "branch", "filePath"}
Body(json, mode, code, repoUrl, branch, filePath) ==
    [json |-> json, mode |-> mode, code |-> code, repoUrl |-> repoUrl, branch |-> branch,
     filePath |-> filePath]
NoFields(json) == Body(json, JsUndefined, JsUndefined, JsUndefined, JsUndefined, JsUndefined)

\* the first loop of validateAndSanitizeInput
SanitizedBody(body) ==
    [f \in RequestFields \cup {"json"} |->
        IF f = "json" THEN "object" ELSE sanitizeInput(body[f])]

\* body.mode || 'code'
ModeOf(body) == IF Falsy(body.mode) THEN JsString(<<"code">>) ELSE body.mode

NoErr == ErrorObject("", <<>>, "")
\* what validateRequestBody throws for a sanitized body (NoErr: nothing)
validateRequestBody(body) ==
    IF body.json # "object"
    THEN ValidationError(<<"Request body is required and must be an object">>)
    ELSE IF validateInput(body, baseRequest)
    THEN ValidationError(<<"Input validation failed">>)
    ELSE IF ModeOf(body) = JsString(<<"code">>)
    THEN (IF validateInput(body, codeRequest)
          THEN ValidationError(<<"Input validation failed">>) ELSE NoErr)
    ELSE IF ModeOf(body) = JsString(<<"repo">>)
    THEN (IF validateInput(body, repoRequest)
          THEN ValidationError(<<"Input validation failed">>) ELSE NoErr)
    ELSE ValidationError(<<"Invalid mode: ">> \o ToText(ModeOf(body)))

\* what validateTypeScriptCode throws
validateTypeScriptCode(code) ==
    IF code.t # "string" THEN ValidationError(<<"Code must be a string">>)
    ELSE IF StringLength(code.s) < 10
    THEN ValidationError(<<"Code must be at least 10 characters long">>)
    ELSE IF ~Includes(code.s, "class Foo {}")
    THEN ValidationError(<<"Code must contain imports or class definitions">>)
    ELSE NoErr
\* what validateGitHubUrl throws
validateGitHubUrl(url) ==
    IF ~GitHubPattern(ToText(url)) THEN ValidationError(<<"Invalid GitHub repository URL. Must be in format: https://github.com/username/repo">>)
    ELSE IF Includes(url.s, "..")
    THEN ValidationError(<<"Repository URL contains invalid path traversal">>)
    ELSE NoErr
\* validateFilePath without its check for path traversal
validateFilePathByPatternOnly(filePath) ==
    IF Falsy(filePath) THEN NoErr
    ELSE IF ~PathPattern(ToText(filePath))
    THEN ValidationError(<<"Invalid file path. Must contain only letters, numbers, slashes, hyphens, underscores, and dots">>)
    ELSE NoErr
\* what validateFilePath throws
validateFilePath(filePath) ==
    IF Falsy(filePath) THEN NoErr
    ELSE IF ~PathPattern(ToText(filePath))
    THEN ValidationError(<<"Invalid file path. Must contain only letters, numbers, slashes, hyphens, underscores, and dots">>)
    ELSE IF Includes(filePath.s, "..") \/ Head(filePath.s) \in {"/", "\\"}
    THEN ValidationError(<<"Invalid file path: potential path traversal detected">>)
    ELSE NoErr

\* what the handler throws between JSON.parse and the end of
\* validateAndSanitizeInput
ObjectEntriesError ==
    ErrorObject("TypeError", <<"Cannot convert undefined or null to object">>, "")
\* the same without the try around JSON.parse: its SyntaxError goes on
BodyErrorOfBareParse(body) ==
    IF body.json = "unparseable"
    THEN ErrorObject("SyntaxError", <<"Unexpected token in JSON">>, "")
    ELSE IF body.json = "null" THEN ObjectEntriesError
    ELSE validateRequestBody(SanitizedBody(body))
BodyError(body) ==
    IF body.json = "unparseable" THEN ValidationError(<<"Invalid JSON in request body">>)
    ELSE IF body.json = "null" THEN ObjectEntriesError
    ELSE validateRequestBody(SanitizedBody(body))
\* const { mode, code, repoUrl, branch, filePath } = validatedBody
ValidatedBody(body) == [SanitizedBody(body) EXCEPT !.mode = IF body.mode.t = "undefined" THEN JsString(<<"code">>) ELSE sanitizeInput(body.mode)]
\* what the handler throws after validateAndSanitizeInput and before the
\* first file operation or request
ModeError(validated) ==
    IF validated.mode = JsString(<<"repo">>)
    THEN (IF validateGitHubUrl(validated.repoUrl) # NoErr
          THEN validateGitHubUrl(validated.repoUrl)
          ELSE validateFilePath(validated.filePath))
    ELSE validateTypeScriptCode(validated.code)

\* ------------------------------------------------------ the input program
\* the sequences over S of length at most n
RECURSIVE SeqUpTo(_, _)
SeqUpTo(S, n) ==
    IF n = 0 THEN {<<>>}
    ELSE LET shorter == SeqUpTo(S, n - 1)
         IN  shorter \cup {Append(q, x) : q \in {r \in shorter : Len(r) = n - 1}, x \in S}

ClassNames == {"Foo", "Bar"}

\* a parameter's declared type: the syntax kind and the source text
NumberType == [kind |-> NumberKeyword, text |-> "number"]
CustomType == [kind |-> 183, text |-> "Custom"]

\* a method member of a class body: its decorators' source texts and its
\* parameters' types
MemberShapes ==
    {[decorators |-> <<>>, params |-> <<>>],
     [decorators |-> <<"method">>, params |-> <<NumberType>>],
     [decorators |-> <<"method">>, params |-> <<CustomType>>]}

\* a class declaration: the texts of its heritage clause and its members
ClassDeclsUpTo(n) ==
    {[heritage |-> <<"Base">>, members |-> <<>>]}
    \cup {[heritage |-> <<"SmartContract">>, members |-> m] : m \in SeqUpTo(MemberShapes, n)}
\* the declarations of the input: Foo has up to MaxMembers members, Bar
\* at most one
ClassTables ==
    {[c \in ClassNames |-> IF c = "Foo" THEN foo ELSE bar] :
        foo \in ClassDeclsUpTo(MaxMembers), bar \in ClassDeclsUpTo(1)}

\* an exported symbol: an alias resolves to the symbol named target;
\* declares is the class the resolved symbol declares, or "" for a
\* function or a variable
ExportSymbols ==
    {[name |-> c, alias |-> FALSE, target |-> c] : c \in ClassNames}
    \cup {[name |-> "FooAlias", alias |-> TRUE, target |-> "Foo"],
          [name |-> "helper", alias |-> FALSE, target |-> "helper"]}

\* checker.getExportsOfModule: the exported symbols, each name once
ExportLists ==
    {<<>>} \cup {<<a>> : a \in ExportSymbols}
    \cup {<<p[1], p[2]>> : p \in {q \in ExportSymbols \X ExportSymbols : q[1] # q[2]}}

Exported(exports) == {exports[i].target : i \in DOMAIN exports}

\* what the factories of a compiled module do when a generator calls them:
\* Sudoku.from(board) returns an object or null, or throws; new Player(...)
\* returns an object or throws
Factories(sudoku, player) == [Sudoku |-> sudoku, Player |-> player]
NoFactories == Factories("object", "object")

\* a source unit: its exports, its class declarations, the names the
\* compiled module exports at run time and what its factories do
Sources ==
    {src \in [exports : ExportLists,
              classes : ClassTables,
              runtime : SUBSET ClassNames,
              factories : {NoFactories}] :
        \A c \in ClassNames :
            c \notin Exported(src.exports) =>
                /\ src.classes[c] = [heritage |-> <<"Base">>, members |-> <<>>]
                /\ c \notin src.runtime}

\* ------------------------------------------------------------- state
VARIABLES
    request,                \* the body of the event (the input)
    repo,                   \* what GitHub answers in repo mode (the input)
    source,                 \* the source unit under analysis (the input program)
    pc,                     \* where the handler invocation stands
    outputLogs,             \* lambda-handler.mjs: let outputLogs (the transcript)
    logs,                   \* logger.js: logger.logs
    mockGeneratorRegistry,  \* lambda-handler.mjs: the registered generators
    targetModule,           \* analyseAndRun: the names the imported module exports
    exportIdx,              \* analyseAndRun: position of the loop over exports
    memberIdx,              \* analyseAndRun: position of the loop over declaration.members
    instance,               \* analyseAndRun: let instance (0: none)
    mockArgs,               \* analyseAndRun: the arguments synthesized last
    inflight,               \* the method invocations whose promise has not settled
    err,                    \* the error propagating to handler's catch
    response,               \* what handler returned
    ctorCalls,              \* history of the analysis: every call of a class constructor (at: the export's position)
    instances,              \* history of the analysis: the class of every instance created (instance i is instances[i])
    synthesized,            \* history of the analysis: the methods arguments were synthesized for
    calls,                  \* history of the analysis: every invocation of a target function
    thrown,                 \* history of the analysis: what the invoked methods threw
    fileIdx,                \* processGitHubRepo: position of the loop over files
    fetched,                \* processGitHubRepo: the keys of fileContents, as positions of repo.files
    effects,                \* history: the requests, file operations, compiles and imports made
    PrivateKey,             \* lambda-handler.mjs: let PrivateKey (TRUE: o1js was loaded)
    invocations,            \* the locals of the handler invocations that run side by side
    files,                  \* the files under /tmp: who wrote each path last
    moduleCache,            \* the modules the loader has evaluated, by import specifier
    now                     \* Date.now()

vars == <<PrivateKey, invocations, files, moduleCache, now, request, repo, fileIdx, fetched, effects, source, pc, outputLogs, logs, mockGeneratorRegistry, targetModule, exportIdx,
          memberIdx, instance, mockArgs, inflight, err, response, ctorCalls, instances,
          synthesized, calls, thrown>>

\* what a transcript line or a log entry is about: a class, or method
\* number `method` of its declaration (0: the class itself)
About(cls, method) == [cls |-> cls, method |-> method]
Nothing == About("", 0)

\* a transcript line: its kind stands for the fixed text around the parts
\* that vary (text, args); mark is the status appended to a call line
Line(kind, about, text, args) ==
    [kind |-> kind, about |-> about, text |-> text, args |-> args, mark |-> <<>>,
     diagnostics |-> <<>>]

NoResponse ==
    [statusCode |-> 0, success |-> FALSE, message |-> <<>>, error |-> NoError,
     output |-> <<>>, summary |-> NoSummary]

\* ------------------------------------------------- generateMockValue
\* what Math.random() returns, sampled: a fraction below 1, here the
\* largest of six decimal places
RandomSamples == {[num |-> 999999, den |-> 1000000]}
NumberRange == 1000
\* a number rounded up instead of down
generateNumberRoundedUp(r) == JsNumber((r.num * NumberRange + r.den - 1) \div r.den)
\* Math.floor(Math.random() * 1000)
generateNumber(r) == JsNumber((r.num * NumberRange) \div r.den)
\* what Math.random-driven synthesis can return, sampled
StringSamples == {JsString(<<"k3x9q">>)}
NumberSamples == {generateNumber(r) : r \in RandomSamples}
BooleanSamples == {JsBoolean(TRUE), JsBoolean(FALSE)}

\* an object built by the class or the factory of that name
JsObject(name) == [t |-> "object", s |-> <<name>>, n |-> 0]
\* in a list of arguments: the synthesis of this argument threw
Raised(message) == [t |-> "throw", s |-> message, n |-> 0]

\* a registered generator: the name it is registered under, what the
\* factory of the module it closes over does ("object", "null" or
\* "throws") and the source unit that module was loaded for
Generator(name, outcome, by) == [name |-> name, outcome |-> outcome, by |-> by]
\* registerMockGenerator: mockGeneratorRegistry[typeName] = generator
registerMockGenerator(registry, generator) ==
    {g \in registry : g.name # generator.name} \cup {generator}
\* the generator the registry object holds under a name of its own
OwnGenerators(registry, typeName) == {g \in registry : g.name = typeName}
\* mockGeneratorRegistry is a plain object: the names it inherits from
\* Object.prototype are truthy under mockGeneratorRegistry[typeName] too
ObjectPrototypeNames == {"toString", "constructor", "hasOwnProperty", "__proto__"}
\* mockGeneratorRegistry[typeName]() for an inherited name: toString gives
\* '[object Object]', constructor a new object, hasOwnProperty false, and
\* __proto__ is an object, which is not callable
CallInherited(typeName) ==
    CASE typeName = "toString" -> JsString(<<"[object Object]">>)
      [] typeName = "constructor" -> JsObject("Object")
      [] typeName = "hasOwnProperty" -> JsBoolean(FALSE)
      [] typeName = "__proto__" -> Raised(<<"mockGeneratorRegistry[typeName] is not a function">>)
\* the call of a registered generator
CallGenerator(g) ==
    CASE g.outcome = "object" -> JsObject(g.name)
      [] g.outcome = "null" -> JsNull
      [] g.outcome = "throws" -> Raised(<<"targetModule.", g.name, " failed">>)

\* the values generateMockValue(typeKind, typeName) can return, or Raised
\* when it throws
generateMockValue(typeKind, typeName, registry) ==
    IF OwnGenerators(registry, typeName) # {}
    THEN {CallGenerator(g) : g \in OwnGenerators(registry, typeName)}
    ELSE IF typeName \in ObjectPrototypeNames THEN {CallInherited(typeName)}
    ELSE CASE typeKind = StringKeyword -> StringSamples
           [] typeKind = NumberKeyword -> NumberSamples
           [] typeKind = BooleanKeyword -> BooleanSamples
           [] OTHER -> {JsNull}

\* p.type?.kind ?? 131: a parameter without a type annotation (kind 0
\* here) counts as any
TypeKindOf(p) == IF p.kind = 0 THEN AnyKeyword ELSE p.kind

\* member.parameters.map(p => generateMockValue(...)): the argument lists
RECURSIVE MockArgLists(_, _)
MockArgLists(params, registry) ==
    IF params = <<>> THEN {<<>>}
    ELSE {<<v>> \o rest :
            v \in generateMockValue(TypeKindOf(Head(params)), Head(params).text, registry),
            rest \in MockArgLists(Tail(params), registry)}

\* args.includes(undefined): the skip test looking for the wrong value
ArgsIncludeUndefined(args) == \E i \in DOMAIN args : args[i] = JsUndefined

\* args.includes(null)
ArgsIncludeNull(args) == \E i \in DOMAIN args : args[i] = JsNull

\* the synthesis of some argument threw: parameters.map did not return
ArgsRaised(args) == \E i \in DOMAIN args : args[i].t = "throw"
\* what was thrown: by the first argument whose synthesis threw
FirstRaised(args) ==
    args[CHOOSE i \in DOMAIN args :
            args[i].t = "throw" /\ \A j \in 1..(i - 1) : args[j].t # "throw"]

\* outputLogs[outputLogs.length - 1] += mark
MarkLast(lines, mark) ==
    [lines EXCEPT ![Len(lines)].mark = Append(lines[Len(lines)].mark, mark)]

\* ------------------------------------------------------ environment
\* what a constructor or a method of the fuzzed module, or the evaluation
\* of the module itself, can throw
Throwables ==
    {ErrorObject("Error", <<"boom">>, ""),
     ErrorObject("Error", <<>>, ""),
     ThrownString(<<"boom">>),
     ThrownNull}
\* a BigInt, which JSON.stringify refuses to serialize
JsBigInt == [t |-> "bigint", s |-> <<>>, n |-> 1]
\* JSON.stringify(value) returns (it throws a TypeError for a BigInt)
Serializable(value) == value.t # "bigint"
StringifyError ==
    ErrorObject("TypeError", <<"Do not know how to serialize a BigInt">>, "")
\* what a method can return
Returns == {JsUndefined, JsString(<<"ok">>), JsBigInt}

\* a diagnostic of the compiler: file tells whether it has a file (and so
\* a position: line and character count from 0)
Diagnostic(file, line, character, message) ==
    [file |-> file, line |-> line, character |-> character, message |-> message]
SyntaxDiagnostic == Diagnostic(TRUE, 6, 22, <<"')' expected.">>)
OptionDiagnostic == Diagnostic(FALSE, 0, 0, <<"Cannot write file.">>)
\* the text of a diagnostic with the position as the compiler counts it
FormatDiagnosticFromZero(diagnostic) ==
    IF diagnostic.file
    THEN Diagnostic(TRUE, diagnostic.line, diagnostic.character, diagnostic.message)
    ELSE Diagnostic(FALSE, 0, 0, diagnostic.message)
\* the text the handler makes of a diagnostic:
\* `${fileName} (${line + 1},${character + 1}): ${message}`, or the message
FormatDiagnostic(diagnostic) ==
    IF diagnostic.file
    THEN Diagnostic(TRUE, diagnostic.line + 1, diagnostic.character + 1, diagnostic.message)
    ELSE Diagnostic(FALSE, 0, 0, diagnostic.message)
\* ts.getPreEmitDiagnostics(program).concat(emitResult.diagnostics).map(...)
FormatDiagnostics(result) ==
    LET allDiagnostics == result.preEmit \o result.emit
    IN  [i \in DOMAIN allDiagnostics |-> FormatDiagnostic(allDiagnostics[i])]

\* what a compile gives: whether the emit was skipped, the diagnostics of
\* the program and those of the emit
CompileResult(emitSkipped, preEmit, emit) ==
    [emitSkipped |-> emitSkipped, preEmit |-> preEmit, emit |-> emit]
NoCompile == CompileResult(FALSE, <<>>, <<>>)
CompileResults ==
    {CompileResult(FALSE, <<>>, <<>>),
     CompileResult(FALSE, <<SyntaxDiagnostic>>, <<>>),
     CompileResult(TRUE, <<SyntaxDiagnostic>>, <<OptionDiagnostic>>),
     CompileResult(TRUE, <<>>, <<OptionDiagnostic>>)}
\* the results tried for a source unit: an emit with diagnostics is tried
\* for the units of at most one export
CompileResultsOf(unit) ==
    IF Len(unit.exports) <= 1 THEN CompileResults
    ELSE CompileResults \ {CompileResult(FALSE, <<SyntaxDiagnostic>>, <<>>)}

\* an entry of the history of effects
Effect(op, unit) == [op |-> op, unit |-> unit, compile |-> NoCompile]
CompileEffect(unit, result) == [op |-> "compile", unit |-> unit, compile |-> result]

\* the request bodies
ModeValues ==
    {JsUndefined, JsString(<<"code">>), JsString(<<"repo">>), JsString(<<"fuzz">>), JsNumber(42)}
CodeValues ==
    {JsUndefined, JsString(<<>>), JsString(<<"test">>), JsString(<<"class Foo {}">>),
     JsString(<<"let x = 1;">>), JsString(<<"javascript:">>), JsNumber(42)}
ValidRepoUrl == JsString(<<GitHubPrefix, "owner", "/", "repo">>)
RepoUrlValues ==
    {JsUndefined, ValidRepoUrl, JsString(<<"invalid-url">>),
     JsString(<<" ", GitHubPrefix, "owner", "/", "repo">>),
     JsString(<<"javascript:", GitHubPrefix, "owner", "/", "repo">>),
     JsString(<<GitHubPrefix, "owner">>),
     JsString(<<GitHubPrefix, "owner", "/", "..">>),
     JsNumber(42)}
BranchValues == {JsUndefined, JsString(<<"main">>), JsString(<<"..">>)}
FilePathValues ==
    {JsUndefined, JsString(<<"src", "/", "Add.ts">>), JsString(<<"..", "/", "Add.ts">>),
     JsString(<<"/", "src", "/", "Add.ts">>), JsString(<<"\\", "src">>),
     JsString(<<"javascript:", "src", "/", "Add.ts">>)}
\* what JSON.parse gives that is no object: Object.entries gives no entry
\* for a number and the indices for a string or an array, none of them a
\* field of the request
NonObjects == {"null", "number", "string", "array"}
RequestBodies ==
    {NoFields("unparseable")} \cup {NoFields(json) : json \in NonObjects}
    \cup {Body("object", mode, code, repoUrl, branch, filePath) :
             mode \in ModeValues, code \in CodeValues, repoUrl \in RepoUrlValues,
             branch \in BranchValues, filePath \in FilePathValues}
\* one request for every way through the start of the handler
TypicalRequests ==
    {NoFields("unparseable"), NoFields("null"),
     Body("object", JsString(<<"code">>), JsUndefined, JsUndefined, JsUndefined, JsUndefined),
     Body("object", JsUndefined, JsString(<<"let x = 1;">>), JsUndefined, JsUndefined, JsUndefined),
     Body("object", JsUndefined, JsString(<<"class Foo {}">>), JsUndefined, JsUndefined, JsUndefined),
     Body("object", JsString(<<"repo">>), JsUndefined, JsString(<<"invalid-url">>), JsUndefined, JsUndefined),
     Body("object", JsString(<<"repo">>), JsUndefined, JsString(<<GitHubPrefix, "owner", "/", "..">>), JsUndefined, JsUndefined),
     Body("object", JsString(<<"repo">>), JsUndefined, ValidRepoUrl, JsUndefined, JsString(<<"..", "/", "Add.ts">>)),
     Body("object", JsString(<<"repo">>), JsUndefined, ValidRepoUrl, JsUndefined, JsUndefined),
     Body("object", JsString(<<"repo">>), JsUndefined, ValidRepoUrl, JsString(<<"main">>), JsString(<<"src", "/", "Add.ts">>))}

\* the request passes every validation of the handler
Accepted(body) == BodyError(body) = NoErr /\ ModeError(ValidatedBody(body)) = NoErr
\* handler: mode === 'repo'
InRepoMode(body) == ValidatedBody(body).mode = JsString(<<"repo">>)
\* processGitHubRepo: if (filePath)
HasFilePath(body) == ~Falsy(ValidatedBody(body).filePath)

\* the source units of a repository
EmptySource ==
    [exports |-> <<>>,
     classes |-> [c \in ClassNames |-> [heritage |-> <<"Base">>, members |-> <<>>]],
     runtime |-> {},
     factories |-> NoFactories]
FooSource ==
    [exports |-> <<[name |-> "Foo", alias |-> FALSE, target |-> "Foo"]>>,
     classes |-> [c \in ClassNames |->
                     IF c = "Foo"
                     THEN [heritage |-> <<"SmartContract">>,
                           members |-> <<[decorators |-> <<"method">>, params |-> <<NumberType>>]>>]
                     ELSE [heritage |-> <<"Base">>, members |-> <<>>]],
     runtime |-> {"Foo"},
     factories |-> NoFactories]
\* a file of the repository: how its fetch ends, what its compile gives
\* and the source unit it holds
RepoFile(fetch, compile, unit) == [fetch |-> fetch, compile |-> compile, unit |-> unit]
\* the files tried for a request that names its file
NamedFiles ==
    {RepoFile("notFound", NoCompile, EmptySource),
     RepoFile("rejects", NoCompile, EmptySource),
     RepoFile("ok", CompileResult(TRUE, <<SyntaxDiagnostic>>, <<OptionDiagnostic>>), EmptySource),
     RepoFile("ok", NoCompile, EmptySource),
     RepoFile("ok", NoCompile, FooSource),
     RepoFile("ok", CompileResult(FALSE, <<SyntaxDiagnostic>>, <<>>), FooSource)}
\* the files tried in the result of a search: one that cannot be fetched,
\* one that does not compile, one that holds a contract
RepoFiles ==
    {RepoFile("notFound", NoCompile, EmptySource),
     RepoFile("ok", CompileResult(TRUE, <<SyntaxDiagnostic>>, <<OptionDiagnostic>>), EmptySource),
     RepoFile("ok", NoCompile, FooSource)}
\* the paths of the files, by position in the search result
FileNames == <<"a.ts", "b.ts", "c.ts", "d.ts", "e.ts", "f.ts", "g.ts", "h.ts">>
\* what GitHub answers: how the search ends and the files it lists
NoRepo == [search |-> "ok", files |-> <<>>]
Repos ==
    {[search |-> s, files |-> <<>>] : s \in {"forbidden", "rejects"}}
    \cup {[search |-> "ok", files |-> f] : f \in SeqUpTo(RepoFiles, MaxFiles)}
\* the answers that matter to a request
ReposFor(body) ==
    IF ~Accepted(body) \/ ~InRepoMode(body) THEN {NoRepo}
    ELSE IF HasFilePath(body) THEN {[search |-> "ok", files |-> <<f>>] : f \in NamedFiles}
    ELSE Repos
SourcesFor(body) ==
    IF Accepted(body) /\ ~InRepoMode(body) THEN Sources ELSE {EmptySource}

\* the logger's entries after the module is loaded: the import of o1js
\* has succeeded or failed
O1jsLoaded == <<LogEntry("info", <<"o1js loaded successfully">>, Nothing)>>
O1jsMissing == <<LogEntry("warn", <<"o1js not available, some features may be limited">>, Nothing)>>
ModuleLoadLogs == {O1jsLoaded, O1jsMissing}

\* the transcript when an invocation begins: empty after the module is
\* loaded, the one of the last invocation afterwards
EarlierTranscripts == {<<>>, <<Line("earlier", Nothing, <<>>, <<>>)>>}

\* the state when an invocation begins, for a request of the set; o1js
\* was loaded (whether it was matters to the units that export Player only,
\* which SpecSynthesis runs with and without it)
InitFor(requests) ==
    /\ request \in requests
    /\ repo \in ReposFor(request)
    /\ source \in SourcesFor(request)
    /\ pc = "idle"
    /\ outputLogs \in EarlierTranscripts
    /\ logs = O1jsLoaded
    /\ mockGeneratorRegistry = {}
    /\ targetModule = {}
    /\ exportIdx = 0
    /\ memberIdx = 0
    /\ instance = 0
    /\ mockArgs = <<>>
    /\ inflight = {}
    /\ err = NoErr
    /\ response = NoResponse
    /\ ctorCalls = <<>>
    /\ instances = <<>>
    /\ synthesized = <<>>
    /\ calls = <<>>
    /\ thrown = <<>>
    /\ fileIdx = 0
    /\ fetched = <<>>
    /\ effects = <<>>
    /\ PrivateKey = TRUE
    /\ invocations = <<>>
    /\ files = {}
    /\ moduleCache = {}
    /\ now = 0

Init == InitFor(TypicalRequests)

\* ----------------------------------------------- GitHub helper functions
\* extractRepoInfo: /github\.com\/([^\/]+\/[^\/]+)/ finds a match
extractRepoInfo(repoUrl) ==
    \E i \in DOMAIN repoUrl.s :
        /\ repoUrl.s[i] = GitHubPrefix
        /\ \E k \in (i + 2)..(Len(repoUrl.s) - 1) :
              /\ repoUrl.s[k] = "/"
              /\ NoSlash(repoUrl.s[k + 1])
              /\ \A j \in (i + 1)..(k - 1) : NoSlash(repoUrl.s[j])

\* fetchFileFromGitHub up to its await of fetch, for the file at position i
FetchHeadLines(i) ==
    <<Line("fetching", Nothing, <<>>, <<>>),
      Line("file", Nothing, <<FileNames[i]>>, <<>>),
      Line("branch", Nothing, <<>>, <<>>),
      Line("rule", Nothing, <<>>, <<>>)>>
FetchHeadLogs(lg) == Log(lg, "info", <<"Fetching file from GitHub">>, Nothing)
\* what fetchFileFromGitHub throws for a file (NoErr: nothing); a rejected
\* fetch is wrapped by safeExecute
FetchError(i) ==
    CASE repo.files[i].fetch = "notFound" ->
            ResourceError(<<"File not found: ", FileNames[i]>>)
      [] repo.files[i].fetch = "rejects" ->
            SafeExecuteThrown(ErrorObject("TypeError", <<"fetch failed">>, ""))
      [] OTHER -> NoErr
\* what findTypeScriptFilesInRepo throws
SearchError ==
    CASE repo.search = "forbidden" ->
            ResourceError(<<"GitHub API rate limit exceeded. Please try again later or use authentication.">>)
      [] repo.search = "rejects" ->
            SafeExecuteThrown(ErrorObject("TypeError", <<"fetch failed">>, ""))
      [] repo.files = <<>> ->
            ResourceError(<<"No TypeScript files found in the repository">>)
      [] OTHER -> NoErr
\* filesToProcess.slice(0, 5)
FetchLimit == 5
FilesToFetch == IF Len(repo.files) < FetchLimit THEN Len(repo.files) ELSE FetchLimit

\* ------------------------------------------------------------ handler
\* the requests sent before every validation is done
StartEffectsUnvalidated(body) ==
    IF BodyError(body) # NoErr \/ ~InRepoMode(body) THEN <<>>
    ELSE IF HasFilePath(body) THEN <<Effect("fetch", 1)>>
    ELSE <<Effect("search", 0)>>

\* the requests handler has sent when it reaches its first await: none for
\* a rejected request and none in code mode; in repo mode the fetch of the
\* named file, or the search
StartEffects(body) ==
    IF ~Accepted(body) \/ ~InRepoMode(body) \/ ~extractRepoInfo(ValidatedBody(body).repoUrl)
    THEN <<>>
    ELSE IF HasFilePath(body) THEN <<Effect("fetch", 1)>>
    ELSE <<Effect("search", 0)>>

\* handler, up to its first await: the reset, the parse of the body, the
\* validations and, in repo mode, processGitHubRepo up to its first request
HandlerStart ==
    /\ pc = "idle"
    /\ effects' = effects \o StartEffects(request)
    /\ LET started == Log(<<>>, "info", <<"Lambda handler started">>, Nothing)
           validated == Log(started, "info", <<"Request validated successfully">>, Nothing)
           body == ValidatedBody(request)
       IN  IF BodyError(request) # NoErr
           THEN /\ logs' = started
                /\ outputLogs' = <<>>
                /\ err' = BodyError(request)
                /\ pc' = "catch"
                /\ UNCHANGED fileIdx
           ELSE IF ModeError(body) # NoErr
           THEN /\ logs' = validated
                /\ outputLogs' = <<>>
                /\ err' = ModeError(body)
                /\ pc' = "catch"
                /\ UNCHANGED fileIdx
           ELSE IF ~InRepoMode(request)
           THEN /\ logs' = validated
                /\ outputLogs' = <<>>
                /\ pc' = "write"
                /\ UNCHANGED <<err, fileIdx>>
           ELSE IF ~extractRepoInfo(body.repoUrl)
           THEN /\ logs' = validated
                /\ outputLogs' = <<>>
                /\ err' = ValidationError(<<"Invalid GitHub repository URL">>)
                /\ pc' = "catch"
                /\ UNCHANGED fileIdx
           ELSE IF HasFilePath(request)
           THEN /\ logs' = FetchHeadLogs(validated)
                /\ outputLogs' = FetchHeadLines(1)
                /\ fileIdx' = 1
                /\ pc' = "fetch"
                /\ UNCHANGED err
           ELSE /\ logs' = Log(validated, "info", <<"Searching for TypeScript files in repository">>, Nothing)
                /\ outputLogs' = <<Line("searching", Nothing, <<>>, <<>>),
                                   Line("noToken", Nothing, <<>>, <<>>)>>
                /\ pc' = "search"
                /\ UNCHANGED <<err, fileIdx>>
    /\ UNCHANGED <<PrivateKey, invocations, files, moduleCache, now, request, repo, fetched, source, mockGeneratorRegistry, targetModule,
                   exportIdx, memberIdx, instance, mockArgs, inflight, response, ctorCalls,
                   instances, synthesized, calls, thrown>>

\* the lines analyseAndRun pushes before it parses the source
AnalysisHead ==
    <<Line("fuzzingFile", Nothing, <<>>, <<>>),
      Line("sourceFile", Nothing, <<>>, <<>>),
      Line("rule", Nothing, <<>>, <<>>)>>

\* handler in code mode after the source file is written: the compile and,
\* when it emits, the head of analyseAndRun up to the await of the import
WriteAndCompile(result) ==
    /\ pc = "write"
    /\ effects' = effects \o <<Effect("write", 0), CompileEffect(0, result)>>
    /\ LET wrote == Append(outputLogs, Line("wrote", Nothing, <<>>, <<>>))
       IN  IF result.emitSkipped
           THEN /\ outputLogs' = wrote
                /\ err' = CompilationError(<<"TypeScript compilation failed">>,
                                           FormatDiagnostics(result))
                /\ pc' = "catch"
           ELSE /\ outputLogs' = Append(wrote, Line("compiled", Nothing, <<>>, <<>>))
                                 \o AnalysisHead
                /\ err' = err
                /\ pc' = "import"
    /\ UNCHANGED <<PrivateKey, invocations, files, moduleCache, now, request, repo, fileIdx, fetched, source, logs, mockGeneratorRegistry,
                   targetModule, exportIdx, memberIdx, instance, mockArgs, inflight,
                   response, ctorCalls, instances, synthesized, calls, thrown>>

\* --------------------------------------------------- processGitHubRepo
\* the search has settled: its failure leaves through the safeExecute of
\* processGitHubRepo; its result is listed and the first fetch is made
SearchSettles ==
    /\ pc = "search"
    /\ IF SearchError # NoErr
       THEN /\ err' = SearchError
            /\ pc' = "catch"
            /\ UNCHANGED <<outputLogs, logs, fileIdx, effects>>
       ELSE /\ outputLogs' = outputLogs
                             \o <<Line("foundFiles", Nothing, <<>>, <<>>)>>
                             \o [i \in DOMAIN repo.files |->
                                    Line("fileItem", Nothing, <<FileNames[i]>>, <<>>)]
                             \o <<Line("fetchingContent", Nothing, <<>>, <<>>)>>
                             \o FetchHeadLines(1)
            /\ logs' = FetchHeadLogs(logs)
            /\ effects' = Append(effects, Effect("fetch", 1))
            /\ fileIdx' = 1
            /\ pc' = "fetch"
            /\ UNCHANGED err
    /\ UNCHANGED <<PrivateKey, invocations, files, moduleCache, now, request, repo, fetched, source, mockGeneratorRegistry, targetModule,
                   exportIdx, memberIdx, instance, mockArgs, inflight, response, ctorCalls,
                   instances, synthesized, calls, thrown>>

\* the fetch of a named file has settled: its failure ends the run
FetchSettlesSingle ==
    /\ pc = "fetch"
    /\ HasFilePath(request)
    /\ IF FetchError(1) # NoErr
       THEN /\ err' = FetchError(1)
            /\ pc' = "catch"
            /\ UNCHANGED <<outputLogs, fetched>>
       ELSE /\ outputLogs' = Append(outputLogs, Line("fetched", Nothing, <<FileNames[1]>>, <<>>))
            /\ fetched' = <<1>>
            /\ pc' = "files"
            /\ UNCHANGED err
    /\ UNCHANGED <<PrivateKey, invocations, files, moduleCache, now, request, repo, fileIdx, effects, source, logs, mockGeneratorRegistry,
                   targetModule, exportIdx, memberIdx, instance, mockArgs, inflight,
                   response, ctorCalls, instances, synthesized, calls, thrown>>

\* the fetch of a found file has settled: its failure is a warning; then
\* the next file is fetched or, after the last one, the files are processed
FetchSettles ==
    /\ pc = "fetch"
    /\ ~HasFilePath(request)
    /\ LET error == FetchError(fileIdx)
           lines == IF error = NoErr
                    THEN Append(outputLogs, Line("fetched", Nothing, <<FileNames[fileIdx]>>, <<>>))
                    ELSE Append(outputLogs,
                                Line("fetchWarning", Nothing,
                                     <<FileNames[fileIdx]>> \o error.message, <<>>))
           lg == IF error = NoErr THEN logs
                 ELSE Log(logs, "warn", <<"Failed to fetch ", FileNames[fileIdx]>>, Nothing)
           contents == IF error = NoErr THEN Append(fetched, fileIdx) ELSE fetched
       IN  /\ fetched' = contents
           /\ IF fileIdx < FilesToFetch
              THEN /\ outputLogs' = lines \o FetchHeadLines(fileIdx + 1)
                   /\ logs' = FetchHeadLogs(lg)
                   /\ effects' = Append(effects, Effect("fetch", fileIdx + 1))
                   /\ fileIdx' = fileIdx + 1
                   /\ UNCHANGED <<pc, err>>
              ELSE /\ outputLogs' = lines
                   /\ logs' = lg
                   /\ IF contents = <<>>
                      THEN /\ err' = ResourceError(<<"No files could be fetched from the repository">>)
                           /\ pc' = "catch"
                           /\ UNCHANGED fileIdx
                      ELSE /\ fileIdx' = 1
                           /\ pc' = "files"
                           /\ UNCHANGED err
                   /\ UNCHANGED effects
    /\ UNCHANGED <<PrivateKey, invocations, files, moduleCache, now, request, repo, source, mockGeneratorRegistry, targetModule, exportIdx,
                   memberIdx, instance, mockArgs, inflight, response, ctorCalls, instances,
                   synthesized, calls, thrown>>

\* the file the loop over fileContents stands at
CurrentFile == repo.files[fetched[fileIdx]]

\* one round of the loop over fileContents up to the await of the import:
\* the temporary file is written and compiled; a skipped emit is a warning
\* and the loop goes on with the next file; otherwise analyseAndRun is
\* entered, with fresh locals (the histories of the harness start anew too:
\* they tell of the analysis under way)
ProcessFile ==
    /\ pc = "files"
    /\ fileIdx <= Len(fetched)
    /\ effects' = effects \o <<Effect("write", fetched[fileIdx]),
                               CompileEffect(fetched[fileIdx], CurrentFile.compile)>>
    /\ LET name == FileNames[fetched[fileIdx]]
           processing == Append(outputLogs, Line("processing", Nothing, <<name>>, <<>>))
       IN  IF CurrentFile.compile.emitSkipped
           THEN /\ logs' = Log(logs, "warn", <<"Compilation failed for ", name>>, Nothing)
                /\ outputLogs' = processing
                                 \o <<Line("compileWarning", Nothing, <<name>>, <<>>),
                                      [Line("compileErrors", Nothing, <<>>, <<>>)
                                          EXCEPT !.diagnostics = FormatDiagnostics(CurrentFile.compile)]>>
                /\ fileIdx' = fileIdx + 1
                /\ UNCHANGED <<pc, source, targetModule, exportIdx, memberIdx, instance,
                               ctorCalls, instances, synthesized, calls, thrown>>
           ELSE /\ outputLogs' = Append(processing, Line("compiledFile", Nothing, <<name>>, <<>>))
                                 \o AnalysisHead
                /\ source' = CurrentFile.unit
                /\ targetModule' = {}
                /\ exportIdx' = 0
                /\ memberIdx' = 0
                /\ instance' = 0
                /\ ctorCalls' = <<>>
                /\ instances' = <<>>
                /\ synthesized' = <<>>
                /\ calls' = <<>>
                /\ thrown' = <<>>
                /\ pc' = "import"
                /\ UNCHANGED <<logs, fileIdx>>
    /\ UNCHANGED <<PrivateKey, invocations, files, moduleCache, now, request, repo, fetched, mockGeneratorRegistry, mockArgs, inflight, err,
                   response>>

\* the loop over fileContents is exhausted: processGitHubRepo returns
FilesDone ==
    /\ pc = "files"
    /\ fileIdx > Len(fetched)
    /\ pc' = "respond"
    /\ UNCHANGED <<PrivateKey, invocations, files, moduleCache, now, request, repo, fileIdx, fetched, effects, source, outputLogs, logs,
                   mockGeneratorRegistry, targetModule, exportIdx, memberIdx, instance,
                   mockArgs, inflight, err, response, ctorCalls, instances, synthesized,
                   calls, thrown>>

\* ------------------------------------------------------- analyseAndRun
\* the unit an effect of the analysis belongs to (0 in code mode)
CurrentUnit == IF InRepoMode(request) THEN fetched[fileIdx] ELSE 0

\* the names analyseAndRun registers a generator for, given the module it
\* imported: Sudoku if the module exports it, Player if the module exports
\* it and o1js gave PrivateKey
RegisteredFor(module) ==
    {n \in {"Sudoku"} : n \in module} \cup {n \in {"Player"} : n \in module /\ PrivateKey}

\* the registry after the registrations for the module of a unit
RegisterAll(registry, module, unit) ==
    LET sudoku == IF "Sudoku" \in RegisteredFor(module)
                  THEN registerMockGenerator(registry,
                           Generator("Sudoku", unit.factories.Sudoku, CurrentUnit))
                  ELSE registry
    IN  IF "Player" \in RegisteredFor(module)
        THEN registerMockGenerator(sudoku, Generator("Player", unit.factories.Player, CurrentUnit))
        ELSE sudoku

RegistrationLines(module) ==
    (IF "Sudoku" \in RegisteredFor(module)
     THEN <<Line("registered", Nothing, <<"Sudoku">>, <<>>)>> ELSE <<>>)
    \o (IF "Player" \in RegisteredFor(module)
        THEN <<Line("registered", Nothing, <<"Player">>, <<>>)>> ELSE <<>>)

\* analyseAndRun once the import has settled with the module
ImportModule ==
    /\ pc = "import"
    /\ effects' = Append(effects, Effect("import", CurrentUnit))
    /\ targetModule' = source.runtime
    /\ logs' = Log(logs, "info", <<"Successfully imported compiled module">>, Nothing)
    /\ outputLogs' = outputLogs \o RegistrationLines(source.runtime)
    /\ mockGeneratorRegistry' = RegisterAll(mockGeneratorRegistry, source.runtime, source)
    /\ exportIdx' = 1
    /\ pc' = "loop"
    /\ UNCHANGED <<PrivateKey, invocations, files, moduleCache, now, request, repo, fileIdx, fetched, source, memberIdx, instance, mockArgs,
                   inflight, err, response, ctorCalls, instances, synthesized, calls,
                   thrown>>

\* analyseAndRun once the import has rejected with e: the catch block
\* reads e.message (a TypeError for null, which leaves through safeExecute),
\* warns and goes on with an empty module
ImportFails(e) ==
    /\ pc = "import"
    /\ effects' = Append(effects, Effect("importFailed", CurrentUnit))
    /\ IF MessageThrows(e)
       THEN /\ err' = SafeExecuteThrown(NullPropertyError)
            /\ pc' = "catch"
            /\ UNCHANGED <<targetModule, logs, outputLogs, exportIdx>>
       ELSE /\ targetModule' = {}
            /\ logs' = Log(logs, "warn", <<"Could not import compiled module, continuing with AST analysis only">>, Nothing)
            /\ outputLogs' = outputLogs
                             \o <<Line("importWarning", Nothing, Template(MessageOf(e)), <<>>),
                                  Line("astOnly", Nothing, <<>>, <<>>)>>
            /\ exportIdx' = 1
            /\ pc' = "loop"
            /\ UNCHANGED err
    /\ UNCHANGED <<PrivateKey, invocations, files, moduleCache, now, request, repo, fileIdx, fetched, source, mockGeneratorRegistry, memberIdx,
                   instance, mockArgs, inflight, response, ctorCalls, instances,
                   synthesized, calls, thrown>>

\* -------------------------------------------- analyseAndRun: the loop
\* the symbol an exported symbol resolves to (checker.getAliasedSymbol)
ResolvedSymbol(exportSymbol) ==
    IF exportSymbol.alias THEN exportSymbol.target ELSE exportSymbol.name
\* ts.isClassDeclaration(resolvedSymbol.declarations[0])
IsClassDeclaration(name) == name \in ClassNames
\* some heritage clause has the text SmartContract
IsSmartContract(declaration) ==
    \E i \in DOMAIN declaration.heritage : declaration.heritage[i] = "SmartContract"
\* ts.isMethodDeclaration(member) and some decorator's text starts with method
HasMethodDecorator(member) ==
    \E i \in DOMAIN member.decorators : member.decorators[i] \in {"method", "method.returns"}

ClassName == ResolvedSymbol(source.exports[exportIdx])
Declaration == source.classes[ClassName]
Member == Declaration.members[memberIdx]
IsTarget(exportSymbol) ==
    /\ IsClassDeclaration(ResolvedSymbol(exportSymbol))
    /\ IsSmartContract(source.classes[ResolvedSymbol(exportSymbol)])

\* the loop over exports is exhausted: analyseAndRun returns, in repo mode
\* to the loop over fileContents, which removes the temporary files
LoopDone ==
    /\ pc = "loop"
    /\ exportIdx > Len(source.exports)
    /\ IF InRepoMode(request)
       THEN /\ effects' = Append(effects, Effect("unlink", fetched[fileIdx]))
            /\ fileIdx' = fileIdx + 1
            /\ pc' = "files"
       ELSE /\ pc' = "respond"
            /\ UNCHANGED <<fileIdx, effects>>
    /\ UNCHANGED <<PrivateKey, invocations, files, moduleCache, now, request, repo, fetched, source, outputLogs, logs, mockGeneratorRegistry,
                   targetModule, exportIdx, memberIdx, instance, mockArgs, inflight, err,
                   response, ctorCalls, instances, synthesized, calls, thrown>>

\* an export that is no class, or a class that is no SmartContract
SkipExport ==
    /\ pc = "loop"
    /\ exportIdx <= Len(source.exports)
    /\ ~IsTarget(source.exports[exportIdx])
    /\ exportIdx' = exportIdx + 1
    /\ UNCHANGED <<PrivateKey, invocations, files, moduleCache, now, request, repo, fileIdx, fetched, effects, source, pc, outputLogs, logs, mockGeneratorRegistry, targetModule,
                   memberIdx, instance, mockArgs, inflight, err, response, ctorCalls,
                   instances, synthesized, calls, thrown>>

\* a SmartContract the imported module does not export
ClassMissing ==
    /\ pc = "loop"
    /\ exportIdx <= Len(source.exports)
    /\ IsTarget(source.exports[exportIdx])
    /\ ClassName \notin targetModule
    /\ outputLogs' = outputLogs \o <<Line("found", About(ClassName, 0), <<>>, <<>>),
                                     Line("classNotFound", About(ClassName, 0), <<>>, <<>>)>>
    /\ exportIdx' = exportIdx + 1
    /\ UNCHANGED <<PrivateKey, invocations, files, moduleCache, now, request, repo, fileIdx, fetched, effects, source, pc, logs, mockGeneratorRegistry, targetModule, memberIdx,
                   instance, mockArgs, inflight, err, response, ctorCalls, instances,
                   synthesized, calls, thrown>>

\* new ClassToRun() returns
InstantiateOk ==
    /\ pc = "loop"
    /\ exportIdx <= Len(source.exports)
    /\ IsTarget(source.exports[exportIdx])
    /\ ClassName \in targetModule
    /\ ctorCalls' = Append(ctorCalls, [cls |-> ClassName, at |-> exportIdx, ok |-> TRUE])
    /\ instances' = Append(instances, ClassName)
    /\ instance' = Len(instances) + 1
    /\ outputLogs' = outputLogs \o <<Line("found", About(ClassName, 0), <<>>, <<>>),
                                     Line("instantiated", About(ClassName, 0), <<>>, <<>>)>>
    /\ memberIdx' = 1
    /\ pc' = "members"
    /\ UNCHANGED <<PrivateKey, invocations, files, moduleCache, now, request, repo, fileIdx, fetched, effects, source, logs, mockGeneratorRegistry, targetModule, exportIdx, mockArgs,
                   inflight, err, response, synthesized, calls, thrown>>

\* new ClassToRun() throws e: the catch block reads e.message, which
\* itself throws for null and then leaves analyseAndRun through safeExecute
InstantiateThrows(e) ==
    /\ pc = "loop"
    /\ exportIdx <= Len(source.exports)
    /\ IsTarget(source.exports[exportIdx])
    /\ ClassName \in targetModule
    /\ ctorCalls' = Append(ctorCalls, [cls |-> ClassName, at |-> exportIdx, ok |-> FALSE])
    /\ IF MessageThrows(e)
       THEN /\ outputLogs' = Append(outputLogs, Line("found", About(ClassName, 0), <<>>, <<>>))
            /\ logs' = logs
            /\ err' = SafeExecuteThrown(NullPropertyError)
            /\ pc' = "catch"
            /\ exportIdx' = exportIdx
       ELSE /\ outputLogs' = outputLogs \o
                    <<Line("found", About(ClassName, 0), <<>>, <<>>),
                      Line("instantiateFailed", About(ClassName, 0), Template(MessageOf(e)), <<>>)>>
            /\ logs' = Log(logs, "error", <<"Failed to instantiate">>, About(ClassName, 0))
            /\ err' = err
            /\ pc' = pc
            /\ exportIdx' = exportIdx + 1
    /\ UNCHANGED <<PrivateKey, invocations, files, moduleCache, now, request, repo, fileIdx, fetched, effects, source, mockGeneratorRegistry, targetModule, memberIdx, instance,
                   mockArgs, inflight, response, instances, synthesized, calls, thrown>>

\* ------------------------------------- analyseAndRun: the member loop
\* declaration.members is exhausted: on to the next export
MembersDone ==
    /\ pc = "members"
    /\ memberIdx > Len(Declaration.members)
    /\ exportIdx' = exportIdx + 1
    /\ pc' = "loop"
    /\ UNCHANGED <<PrivateKey, invocations, files, moduleCache, now, request, repo, fileIdx, fetched, effects, source, outputLogs, logs, mockGeneratorRegistry, targetModule, memberIdx,
                   instance, mockArgs, inflight, err, response, ctorCalls, instances,
                   synthesized, calls, thrown>>

\* a member without a method decorator
SkipMember ==
    /\ pc = "members"
    /\ memberIdx <= Len(Declaration.members)
    /\ ~HasMethodDecorator(Member)
    /\ memberIdx' = memberIdx + 1
    /\ UNCHANGED <<PrivateKey, invocations, files, moduleCache, now, request, repo, fileIdx, fetched, effects, source, pc, outputLogs, logs, mockGeneratorRegistry, targetModule,
                   exportIdx, instance, mockArgs, inflight, err, response, ctorCalls,
                   instances, synthesized, calls, thrown>>

\* an entry of the history synthesized: the method, its parameters, the
\* arguments made for them and the module that was loaded for the unit
Synthesis(args) ==
    [cls |-> ClassName, method |-> memberIdx, at |-> exportIdx, params |-> Member.params,
     args |-> args, module |-> targetModule, unit |-> CurrentUnit]

\* a decorated method for which generateMockValue throws: what it throws
\* leaves analyseAndRun through safeExecute
SynthesisThrows ==
    /\ pc = "members"
    /\ memberIdx <= Len(Declaration.members)
    /\ HasMethodDecorator(Member)
    /\ \E args \in MockArgLists(Member.params, mockGeneratorRegistry) :
        /\ ArgsRaised(args)
        /\ mockArgs' = args
        /\ err' = SafeExecuteThrown(ErrorObject("TypeError", FirstRaised(args).s, ""))
        /\ pc' = "catch"
        /\ UNCHANGED <<PrivateKey, invocations, files, moduleCache, now, request, repo, fileIdx,
                       fetched, effects, source, outputLogs, logs, mockGeneratorRegistry,
                       targetModule, exportIdx, memberIdx, instance, inflight, response,
                       ctorCalls, instances, synthesized, calls, thrown>>

\* a decorated method whose synthesized arguments include null:
\* executeFunction warns, pushes the skip line and returns
SkipMethod ==
    /\ pc = "members"
    /\ memberIdx <= Len(Declaration.members)
    /\ HasMethodDecorator(Member)
    /\ \E args \in MockArgLists(Member.params, mockGeneratorRegistry) :
        /\ ~ArgsRaised(args)
        /\ ArgsIncludeNull(args)
        /\ mockArgs' = args
        /\ synthesized' = Append(synthesized, Synthesis(args))
        /\ logs' = Log(logs, "warn", <<"Skipping due to unsupported parameter types">>,
                       About(ClassName, memberIdx))
        /\ outputLogs' = Append(outputLogs, Line("skip", About(ClassName, memberIdx), <<>>, <<>>))
        /\ memberIdx' = memberIdx + 1
        /\ UNCHANGED <<PrivateKey, invocations, files, moduleCache, now, request, repo, fileIdx, fetched, effects, source, pc, mockGeneratorRegistry, targetModule, exportIdx, instance,
                       inflight, err, response, ctorCalls, instances, calls, thrown>>

\* the invocation CallMethod starts: method memberIdx of the class of
\* export exportIdx, bound to the current instance
Invocation ==
    [cls |-> ClassName, method |-> memberIdx, instance |-> instance, at |-> exportIdx]

\* a decorated method with usable arguments: executeFunction pushes the
\* call line, logs the call and invokes the bound function; the
\* invocation is in flight until its promise settles
CallMethod ==
    /\ pc = "members"
    /\ memberIdx <= Len(Declaration.members)
    /\ HasMethodDecorator(Member)
    /\ \E args \in MockArgLists(Member.params, mockGeneratorRegistry) :
        /\ ~ArgsRaised(args)
        /\ ~ArgsIncludeNull(args)
        /\ mockArgs' = args
        /\ synthesized' = Append(synthesized, Synthesis(args))
        /\ outputLogs' = Append(outputLogs, Line("call", About(ClassName, memberIdx), <<>>, args))
        /\ logs' = Log(logs, "info", <<"Method called">>, About(ClassName, memberIdx))
        /\ calls' = Append(calls, Invocation)
        /\ inflight' = inflight \cup {Invocation}
        /\ pc' = "awaiting"
        /\ UNCHANGED <<PrivateKey, invocations, files, moduleCache, now, request, repo, fileIdx, fetched, effects, source, mockGeneratorRegistry, targetModule, exportIdx, memberIdx,
                       instance, err, response, ctorCalls, instances, thrown>>

\* the error executeFunction's catch block receives when func threw e
CaughtByExecuteFunction(e) == SafeExecuteThrown(e)
\* the error executeFunction throws from its catch block
ThrownByExecuteFunction(error) ==
    ExecutionError(<<"Method execution failed: ">> \o error.message)

\* the invocation settles with a result: the result is logged and the call
\* line marked; the output line is pushed for a result that is not
\* undefined. JSON.stringify is called inside the try block: when it throws,
\* the catch block of executeFunction runs as for a throwing method
MethodReturns(result) ==
    /\ pc = "awaiting"
    /\ LET about == About(ClassName, memberIdx)
           logged == Log(logs, "info", <<"Method result">>, about)
           marked == MarkLast(outputLogs, "Success")
       IN  IF result = JsUndefined \/ Serializable(result)
           THEN /\ logs' = logged
                /\ outputLogs' =
                      IF result # JsUndefined
                      THEN Append(marked, Line("output", about, <<>>, <<result>>))
                      ELSE marked
                /\ memberIdx' = memberIdx + 1
                /\ pc' = "members"
                /\ err' = err
           ELSE /\ logs' = Log(logged, "error", <<"Method error">>, about)
                /\ outputLogs' = Append(MarkLast(marked, "Error"),
                                        Line("message", about, StringifyError.message, <<>>))
                /\ err' = SafeExecuteThrown(ThrownByExecuteFunction(StringifyError))
                /\ memberIdx' = memberIdx
                /\ pc' = "catch"
    /\ inflight' = {}
    /\ UNCHANGED <<PrivateKey, invocations, files, moduleCache, now, request, repo, fileIdx, fetched, effects, source, mockGeneratorRegistry, targetModule, exportIdx, instance,
                   mockArgs, response, ctorCalls, instances, synthesized, calls, thrown>>

\* the invocation settles with a throw of e: executeFunction logs the
\* error, marks the call line, pushes the message and throws an
\* ExecutionError, which nothing in analyseAndRun catches: it leaves
\* through safeExecute to handler's catch
MethodThrows(e) ==
    /\ pc = "awaiting"
    /\ thrown' = Append(thrown, [about |-> About(ClassName, memberIdx), value |-> e,
                                  at |-> exportIdx, instance |-> instance])
    /\ LET error == CaughtByExecuteFunction(e)
       IN  /\ logs' = Log(logs, "error", <<"Method error">>, About(ClassName, memberIdx))
           /\ outputLogs' = Append(MarkLast(outputLogs, "Error"),
                                   Line("message", About(ClassName, memberIdx), error.message, <<>>))
           /\ err' = SafeExecuteThrown(ThrownByExecuteFunction(error))
    /\ inflight' = {}
    /\ pc' = "catch"
    /\ UNCHANGED <<PrivateKey, invocations, files, moduleCache, now, request, repo, fileIdx, fetched, effects, source, mockGeneratorRegistry, targetModule, exportIdx, memberIdx,
                   instance, mockArgs, response, ctorCalls, instances, synthesized, calls>>

\* ------------------------------------------------- handler: the return
\* analyseAndRun returned: the summary is taken, then logged, and the
\* success envelope is returned
HandlerSuccess ==
    /\ pc = "respond"
    /\ LET summary == getSummary(logs)
       IN  /\ logs' = Log(logs, "info", <<"Fuzzing completed successfully">>, Nothing)
           /\ response' = [statusCode |-> 200,
                           success |-> TRUE,
                           message |-> <<"Fuzzing complete.">>,
                           error |-> NoError,
                           output |-> outputLogs,
                           summary |-> [present |-> TRUE,
                                        totalLogs |-> summary.total,
                                        errors |-> summary.errors,
                                        warnings |-> summary.warnings]]
    /\ pc' = "done"
    /\ UNCHANGED <<PrivateKey, invocations, files, moduleCache, now, request, repo, fileIdx, fetched, effects, source, outputLogs, mockGeneratorRegistry, targetModule, exportIdx,
                   memberIdx, instance, mockArgs, inflight, err, ctorCalls, instances,
                   synthesized, calls, thrown>>

\* handler without its catch block: the error leaves handler, whose promise
\* rejects
HandlerRethrows ==
    /\ pc = "catch"
    /\ pc' = "rejected"
    /\ UNCHANGED <<PrivateKey, invocations, files, moduleCache, now, request, repo, fileIdx,
                   fetched, effects, source, outputLogs, logs, mockGeneratorRegistry,
                   targetModule, exportIdx, memberIdx, instance, mockArgs, inflight, err,
                   response, ctorCalls, instances, synthesized, calls, thrown>>

\* handler's catch block: the failure envelope; the read of error.message
\* throws for null, and then the promise of handler rejects
HandlerCatch ==
    /\ pc = "catch"
    /\ IF MessageThrows(err)
       THEN /\ pc' = "rejected"
            /\ UNCHANGED <<logs, response>>
       ELSE /\ logs' = Log(logs, "error", <<"Lambda handler failed">>, Nothing)
            /\ response' = createErrorResponse(err, outputLogs)
            /\ pc' = "done"
    /\ UNCHANGED <<PrivateKey, invocations, files, moduleCache, now, request, repo, fileIdx, fetched, effects, source, outputLogs,
                   mockGeneratorRegistry, targetModule, exportIdx, memberIdx, instance,
                   mockArgs, inflight, err, ctorCalls, instances, synthesized, calls,
                   thrown>>

Next ==
    \/ HandlerStart
    \/ \E result \in CompileResultsOf(source) : WriteAndCompile(result)
    \/ SearchSettles
    \/ FetchSettlesSingle
    \/ FetchSettles
    \/ ProcessFile
    \/ FilesDone
    \/ ImportModule
    \/ \E e \in Throwables : ImportFails(e)
    \/ LoopDone
    \/ SkipExport
    \/ ClassMissing
    \/ InstantiateOk
    \/ \E e \in Throwables : InstantiateThrows(e)
    \/ MembersDone
    \/ SkipMember
    \/ SkipMethod
    \/ CallMethod
    \/ \E result \in Returns : MethodReturns(result)
    \/ \E e \in Throwables : MethodThrows(e)
    \/ HandlerSuccess
    \/ HandlerCatch

Spec == Init /\ [][Next]_vars

\* ------------------------------------- createErrorResponse on its own
\* errors.js ErrorCodes
ErrorCodes ==
    {"INVALID_INPUT", "COMPILATION_ERROR", "IMPORT_ERROR", "EXECUTION_ERROR",
     "VALIDATION_ERROR", "RESOURCE_ERROR", "TIMEOUT_ERROR", "UNKNOWN_ERROR"}
\* the code each subclass of FuzzerError gives its instances
CodeOfClass(cls) ==
    CASE cls = "CompilationError" -> "COMPILATION_ERROR"
      [] cls = "ImportError" -> "IMPORT_ERROR"
      [] cls = "ExecutionError" -> "EXECUTION_ERROR"
      [] cls = "ValidationError" -> "VALIDATION_ERROR"
      [] cls = "ResourceError" -> "RESOURCE_ERROR"
      [] cls = "TimeoutError" -> "TIMEOUT_ERROR"
\* the errors createErrorResponse is applied to: an instance of a subclass
\* of FuzzerError, a FuzzerError of any code (one outside ErrorCodes too),
\* and errors of other classes, with or without a code property
ErrorValues ==
    {ErrorObject(cls, message, CodeOfClass(cls)) :
        cls \in FuzzerErrorClasses \ {"FuzzerError"}, message \in {<<"boom">>, <<>>}}
    \cup {ErrorObject("FuzzerError", message, code) :
             message \in {<<"boom">>, <<>>}, code \in ErrorCodes \cup {"CUSTOM_ERROR"}}
    \cup {ErrorObject(cls, message, code) :
             cls \in {"Error", "TypeError", "SyntaxError"}, message \in {<<"boom">>, <<>>},
             code \in {"", "ENOENT", "VALIDATION_ERROR"}}
\* the transcripts it is applied to
TranscriptValues ==
    {<<>>,
     <<Line("wrote", Nothing, <<>>, <<>>)>>,
     <<Line("wrote", Nothing, <<>>, <<>>), Line("compiled", Nothing, <<>>, <<>>)>>}

\* handler's catch block is entered with an error and a transcript
InitErrors ==
    /\ request = NoFields("unparseable")
    /\ repo = NoRepo
    /\ source = EmptySource
    /\ pc = "catch"
    /\ outputLogs \in TranscriptValues
    /\ logs = <<LogEntry("info", <<"Lambda handler started">>, Nothing)>>
    /\ mockGeneratorRegistry = {}
    /\ targetModule = {}
    /\ exportIdx = 0
    /\ memberIdx = 0
    /\ instance = 0
    /\ mockArgs = <<>>
    /\ inflight = {}
    /\ err \in ErrorValues
    /\ response = NoResponse
    /\ ctorCalls = <<>>
    /\ instances = <<>>
    /\ synthesized = <<>>
    /\ calls = <<>>
    /\ thrown = <<>>
    /\ fileIdx = 0
    /\ fetched = <<>>
    /\ effects = <<>>
    /\ PrivateKey = (logs = O1jsLoaded)
    /\ invocations = <<>>
    /\ files = {}
    /\ moduleCache = {}
    /\ now = 0

NextErrors == HandlerCatch

SpecErrors == InitErrors /\ [][NextErrors]_vars

\* ------------------------------------------- the validation on its own
\* an invocation begins with any of the request bodies; only the start of
\* handler and its catch block are followed
InitValidation ==
    /\ request \in RequestBodies
    /\ repo = NoRepo
    /\ source = EmptySource
    /\ pc = "idle"
    /\ outputLogs = <<>>
    /\ logs \in ModuleLoadLogs
    /\ mockGeneratorRegistry = {}
    /\ targetModule = {}
    /\ exportIdx = 0
    /\ memberIdx = 0
    /\ instance = 0
    /\ mockArgs = <<>>
    /\ inflight = {}
    /\ err = NoErr
    /\ response = NoResponse
    /\ ctorCalls = <<>>
    /\ instances = <<>>
    /\ synthesized = <<>>
    /\ calls = <<>>
    /\ thrown = <<>>
    /\ fileIdx = 0
    /\ fetched = <<>>
    /\ effects = <<>>
    /\ PrivateKey = (logs = O1jsLoaded)
    /\ invocations = <<>>
    /\ files = {}
    /\ moduleCache = {}
    /\ now = 0

NextValidation == HandlerStart \/ HandlerCatch

SpecValidation == InitValidation /\ [][NextValidation]_vars

\* ------------------------------------------- the synthesizer at work
\* the declared types of a parameter: the keywords, named types with and
\* without a generator, names the registry object inherits, an array, a
\* union and no annotation at all
StringType == [kind |-> StringKeyword, text |-> "string"]
BooleanType == [kind |-> BooleanKeyword, text |-> "boolean"]
NamedType(text) == [kind |-> 183, text |-> text]
NoType == [kind |-> 0, text |-> ""]
TypeDescriptors ==
    {StringType, NumberType, BooleanType, CustomType, NoType,
     [kind |-> 188, text |-> "number[]"], [kind |-> 192, text |-> "string | number"]}
    \cup {NamedType(text) : text \in {"Sudoku", "Player", "toString", "__proto__"}}
\* the parameter lists of the method
ParamLists ==
    {<<d>> : d \in TypeDescriptors} \cup {<<NumberType, NamedType("Sudoku")>>}

\* what a unit exports beside the contract: the names and their factories
Provisions ==
    {[names |-> {}, factories |-> NoFactories]}
    \cup {[names |-> {"Sudoku"}, factories |-> Factories(o, "object")] :
             o \in {"object", "null", "throws"}}
    \cup {[names |-> {"Player"}, factories |-> Factories("object", o)] :
             o \in {"object", "throws"}}
    \cup {[names |-> {"Sudoku", "Player"}, factories |-> NoFactories]}

\* the exported symbols of the names, in a fixed order
ProvidedSymbols(names) ==
    (IF "Sudoku" \in names THEN <<[name |-> "Sudoku", alias |-> FALSE, target |-> "Sudoku"]>> ELSE <<>>)
    \o (IF "Player" \in names THEN <<[name |-> "Player", alias |-> FALSE, target |-> "Player"]>> ELSE <<>>)

\* a unit: export class Foo extends SmartContract { @method a(params) {} }
\* and what it exports beside
SynthesisUnit(provision, params) ==
    [exports |-> ProvidedSymbols(provision.names)
                 \o <<[name |-> "Foo", alias |-> FALSE, target |-> "Foo"]>>,
     classes |-> [c \in ClassNames |->
                     IF c = "Foo"
                     THEN [heritage |-> <<"SmartContract">>,
                           members |-> <<[decorators |-> <<"method">>, params |-> params]>>]
                     ELSE [heritage |-> <<"Base">>, members |-> <<>>]],
     runtime |-> {"Foo"} \cup provision.names,
     factories |-> provision.factories]
SynthesisUnits == {SynthesisUnit(provision, params) : provision \in Provisions, params \in ParamLists}
\* the units that export the contract only
BareUnits == {u \in SynthesisUnits : u.runtime = {"Foo"}}

\* the repositories: one unit, or a unit followed by one that exports the
\* contract only; every file is fetched and compiles
SynthesisRepos ==
    {[search |-> "ok", files |-> <<RepoFile("ok", NoCompile, u)>>] : u \in SynthesisUnits}
    \cup {[search |-> "ok", files |-> <<RepoFile("ok", NoCompile, u), RepoFile("ok", NoCompile, v)>>] :
             u \in SynthesisUnits, v \in BareUnits}

\* a repo request without filePath
SearchRequest ==
    Body("object", JsString(<<"repo">>), JsUndefined, ValidRepoUrl, JsUndefined, JsUndefined)

InitSynthesis ==
    /\ request = SearchRequest
    /\ repo \in SynthesisRepos
    /\ source = EmptySource
    /\ pc = "idle"
    /\ outputLogs = <<>>
    /\ logs \in ModuleLoadLogs
    /\ mockGeneratorRegistry = {}
    /\ targetModule = {}
    /\ exportIdx = 0
    /\ memberIdx = 0
    /\ instance = 0
    /\ mockArgs = <<>>
    /\ inflight = {}
    /\ err = NoErr
    /\ response = NoResponse
    /\ ctorCalls = <<>>
    /\ instances = <<>>
    /\ synthesized = <<>>
    /\ calls = <<>>
    /\ thrown = <<>>
    /\ fileIdx = 0
    /\ fetched = <<>>
    /\ effects = <<>>
    /\ PrivateKey = (logs = O1jsLoaded)
    /\ invocations = <<>>
    /\ files = {}
    /\ moduleCache = {}
    /\ now = 0

\* the run of the handler over such a repository; the constructors and the
\* methods of the units do not throw
NextSynthesis ==
    \/ HandlerStart
    \/ SearchSettles
    \/ FetchSettles
    \/ ProcessFile
    \/ FilesDone
    \/ ImportModule
    \/ LoopDone
    \/ SkipExport
    \/ InstantiateOk
    \/ MembersDone
    \/ SkipMethod
    \/ CallMethod
    \/ SynthesisThrows
    \/ \E result \in Returns : MethodReturns(result)
    \/ HandlerSuccess
    \/ HandlerCatch

SpecSynthesis == InitSynthesis /\ [][NextSynthesis]_vars

\* ---------------------------------------------------- the logger on its own
MaxLogs == 4
\* the levels log is called with: those of info, warn and error, and one
\* that has no method of its own
Levels == {"info", "warn", "error", "debug"}

\* the variables of one handler invocation, and those of the invocations
\* that run side by side
single ==
    <<request, repo, source, pc, targetModule, exportIdx, memberIdx, instance, mockArgs,
      inflight, err, response, ctorCalls, instances, synthesized, calls, thrown, fileIdx,
      fetched, effects>>
concurrent == <<invocations, files, moduleCache, now>>

\* the module is loaded and the logger is called from anywhere
InitLogger ==
    /\ request = NoFields("unparseable")
    /\ repo = NoRepo
    /\ source = EmptySource
    /\ pc = "idle"
    /\ outputLogs = <<>>
    /\ logs \in ModuleLoadLogs
    /\ mockGeneratorRegistry = {}
    /\ targetModule = {}
    /\ exportIdx = 0
    /\ memberIdx = 0
    /\ instance = 0
    /\ mockArgs = <<>>
    /\ inflight = {}
    /\ err = NoErr
    /\ response = NoResponse
    /\ ctorCalls = <<>>
    /\ instances = <<>>
    /\ synthesized = <<>>
    /\ calls = <<>>
    /\ thrown = <<>>
    /\ fileIdx = 0
    /\ fetched = <<>>
    /\ effects = <<>>
    /\ PrivateKey = (logs = O1jsLoaded)
    /\ invocations = <<>>
    /\ files = {}
    /\ moduleCache = {}
    /\ now = 0

\* Logger.log(level, message, data)
LoggerLog(level) ==
    /\ Len(logs) < MaxLogs
    /\ logs' = Log(logs, level, <<"message">>, Nothing)
    /\ UNCHANGED <<single, concurrent, outputLogs, mockGeneratorRegistry, PrivateKey>>

\* Logger.clear()
LoggerClear ==
    /\ logs # <<>>
    /\ logs' = clear(logs)
    /\ UNCHANGED <<single, concurrent, outputLogs, mockGeneratorRegistry, PrivateKey>>

NextLogger ==
    \/ \E level \in Levels : LoggerLog(level)
    \/ LoggerClear

SpecLogger == InitLogger /\ [][NextLogger]_vars

\* ------------------------------------------ invocations side by side
\* Two calls of handler in one process.  Each runs from one await to the
\* next without interruption; at an await the other may run.  Both share
\* the module's outputLogs, the logger, the directory /tmp and the loader's
\* cache.  Every request is for the same program: a class Foo extending
\* SmartContract with one method, without parameters, that returns
\* undefined.  A line and a log entry carry the invocation that made them.
Invocations == {1, 2}
MaxClock == 1
\* the requests: code mode, repo mode naming the file src/Add.ts, and one
\* that fails the validation
RequestKinds == {"code", "repo", "invalid"}

\* a path under /tmp: `${base}.${ext}` or `${base}-${stamp}.${ext}`
TempPath(base, stamp, ext) == [base |-> base, stamp |-> stamp, ext |-> ext]
NoPath == TempPath("", 0, "")
\* `file://${compiledJsPath}?v=${Date.now()}`
Specifier(path, v) == [path |-> path, v |-> v]
NoSpecifier == Specifier(NoPath, 0)

LineBy(i, kind) == [by |-> i, kind |-> kind, mark |-> <<>>]
EntryBy(i, level, message) == [by |-> i, level |-> level, message |-> message]
\* outputLogs.push(...), once per kind
PushBy(i, lines, kinds) == lines \o [k \in DOMAIN kinds |-> LineBy(i, kinds[k])]

\* fs.writeFileSync, fs.unlinkSync and the reads of the compiler and the
\* loader; the content of a file is the invocation whose code it holds
writeFileSync(fs, path, content) ==
    {f \in fs : f.path # path} \cup {[path |-> path, content |-> content]}
unlinkSync(fs, path) == {f \in fs : f.path # path}
Exists(fs, path) == \E f \in fs : f.path = path
ReadFile(fs, path) == (CHOOSE f \in fs : f.path = path).content

\* the locals of an invocation; pushed and logged are histories: the kinds
\* of the lines it pushed, and the entries it logged before its summary
NewInvocation(kind) ==
    [kind |-> kind, pc |-> "idle", sourcePath |-> NoPath, compiledPath |-> NoPath,
     importId |-> NoSpecifier, ast |-> 0, module |-> 0, error |-> NoErr,
     pushed |-> <<>>, logged |-> <<>>, response |-> NoResponse]

InitConcurrent ==
    /\ request = NoFields("unparseable")
    /\ repo = NoRepo
    /\ source = EmptySource
    /\ pc = "idle"
    /\ outputLogs = <<>>
    /\ logs = <<EntryBy(0, "info", <<"o1js loaded successfully">>)>>
    /\ mockGeneratorRegistry = {}
    /\ targetModule = {}
    /\ exportIdx = 0
    /\ memberIdx = 0
    /\ instance = 0
    /\ mockArgs = <<>>
    /\ inflight = {}
    /\ err = NoErr
    /\ response = NoResponse
    /\ ctorCalls = <<>>
    /\ instances = <<>>
    /\ synthesized = <<>>
    /\ calls = <<>>
    /\ thrown = <<>>
    /\ fileIdx = 0
    /\ fetched = <<>>
    /\ effects = <<>>
    /\ PrivateKey = TRUE
    /\ invocations \in [Invocations -> {NewInvocation(kind) : kind \in RequestKinds}]
    /\ files = {}
    /\ moduleCache = {}
    /\ now = 0

\* what the steps of the invocations leave alone
module == <<single, mockGeneratorRegistry, PrivateKey>>

\* Date.now() moves on
Tick ==
    /\ now < MaxClock
    /\ now' = now + 1
    /\ UNCHANGED <<module, outputLogs, logs, invocations, files, moduleCache>>

\* handler up to its first await: the transcript and the logger are reset;
\* a request that fails the validation is answered at once; in code mode
\* the source is written to /tmp/fuzz-target.ts; in repo mode the fetch of
\* the file is sent
InvokeBegin(i) ==
    /\ invocations[i].pc = "idle"
    /\ LET me == invocations[i]
           started == <<EntryBy(i, "info", <<"Lambda handler started">>)>>
           validated == Append(started, EntryBy(i, "info", <<"Request validated successfully">>))
       IN  CASE me.kind = "invalid" ->
                  LET failed == Append(started, EntryBy(i, "error", <<"Lambda handler failed">>))
                  IN  /\ logs' = clear(logs) \o failed
                      /\ outputLogs' = <<>>
                      /\ invocations' =
                            [invocations EXCEPT ![i] =
                                [me EXCEPT !.pc = "done",
                                           !.logged = failed,
                                           !.response = createErrorResponse(
                                               ValidationError(<<"Invalid JSON in request body">>), <<>>)]]
                      /\ UNCHANGED files
            [] me.kind = "code" ->
                  /\ logs' = clear(logs) \o validated
                  /\ outputLogs' = <<>>
                  /\ files' = writeFileSync(files, TempPath("fuzz-target", 0, "ts"), i)
                  /\ invocations' =
                        [invocations EXCEPT ![i] =
                            [me EXCEPT !.pc = "wrote",
                                       !.sourcePath = TempPath("fuzz-target", 0, "ts"),
                                       !.compiledPath = TempPath("fuzz-target", 0, "js"),
                                       !.logged = validated]]
            [] me.kind = "repo" ->
                  LET fetching == Append(validated, EntryBy(i, "info", <<"Fetching file from GitHub">>))
                      head == <<"fetching", "file", "branch", "rule">>
                  IN  /\ logs' = clear(logs) \o fetching
                      /\ outputLogs' = PushBy(i, <<>>, head)
                      /\ invocations' =
                            [invocations EXCEPT ![i] =
                                [me EXCEPT !.pc = "fetching", !.pushed = head, !.logged = fetching]]
                      /\ UNCHANGED files
    /\ UNCHANGED <<module, moduleCache, now>>

\* the compile of the source path and, as the emit is not skipped, the
\* head of analyseAndRun up to the await of the import: the compiler reads
\* the source path twice and writes the compiled path; a source path that
\* has gone gives no AST, which is a ResourceError
CompileAndAnalyse(i, lines, kinds) ==
    LET me == invocations[i]
    IN  IF Exists(files, me.sourcePath)
        THEN LET unit == ReadFile(files, me.sourcePath)
                 head == kinds \o <<"fuzzingFile", "sourceFile", "rule">>
             IN  /\ files' = writeFileSync(files, me.compiledPath, unit)
                 /\ outputLogs' = PushBy(i, lines, head)
                 /\ invocations' =
                       [invocations EXCEPT ![i] =
                           [me EXCEPT !.pc = "importing",
                                      !.ast = unit,
                                      !.importId = Specifier(me.compiledPath, now),
                                      !.pushed = me.pushed \o head]]
        ELSE LET head == kinds \o <<"fuzzingFile", "sourceFile", "rule">>
             IN  /\ outputLogs' = PushBy(i, lines, head)
                 /\ invocations' =
                       [invocations EXCEPT ![i] =
                           [me EXCEPT !.pc = "respond",
                                      !.error = ResourceError(<<"Could not get source file AST">>),
                                      !.pushed = me.pushed \o head]]
                 /\ UNCHANGED files

\* code mode, after the await of the write
CodeCompile(i) ==
    /\ invocations[i].pc = "wrote"
    /\ invocations[i].kind = "code"
    /\ CompileAndAnalyse(i, outputLogs, <<"wrote", "compiled">>)
    /\ UNCHANGED <<module, logs, moduleCache, now>>

\* repo mode, the fetch has settled with the content: the temporary names
\* are made of the file's base name and Date.now(), and the content is
\* written to the source path
FetchArrives(i) ==
    /\ invocations[i].pc = "fetching"
    /\ LET me == invocations[i]
           kinds == <<"fetched", "processing">>
           path == TempPath("fuzz-Add", now, "ts")
       IN  /\ outputLogs' = PushBy(i, outputLogs, kinds)
           /\ files' = writeFileSync(files, path, i)
           /\ invocations' =
                 [invocations EXCEPT ![i] =
                     [me EXCEPT !.pc = "wrote",
                                !.sourcePath = path,
                                !.compiledPath = TempPath("fuzz-Add", now, "js"),
                                !.pushed = me.pushed \o kinds]]
    /\ UNCHANGED <<module, logs, moduleCache, now>>

\* repo mode, after the await of the write
RepoCompile(i) ==
    /\ invocations[i].pc = "wrote"
    /\ invocations[i].kind = "repo"
    /\ CompileAndAnalyse(i, outputLogs, <<"compiledFile">>)
    /\ UNCHANGED <<module, logs, moduleCache, now>>

\* the import has settled: the loader gives the module it has for the
\* specifier, or evaluates the file at the compiled path, or fails when
\* there is none; then analyseAndRun goes up to the await of the call of
\* Foo's method
ImportArrives(i) ==
    /\ invocations[i].pc = "importing"
    /\ LET me == invocations[i]
           cached == {m \in moduleCache : m.specifier = me.importId}
           loaded == cached # {} \/ Exists(files, me.compiledPath)
           unit == IF cached # {} THEN (CHOOSE m \in cached : TRUE).module
                   ELSE ReadFile(files, me.compiledPath)
           kinds == IF loaded THEN <<"found", "instantiated", "call">>
                    ELSE <<"importWarning", "astOnly", "found", "classNotFound">>
           entries == IF loaded
                      THEN <<EntryBy(i, "info", <<"Successfully imported compiled module">>),
                             EntryBy(i, "info", <<"Method called">>)>>
                      ELSE <<EntryBy(i, "warn", <<"Could not import compiled module, continuing with AST analysis only">>)>>
       IN  /\ moduleCache' =
                 IF loaded /\ cached = {}
                 THEN moduleCache \cup {[specifier |-> me.importId, module |-> unit]}
                 ELSE moduleCache
           /\ logs' = logs \o entries
           /\ outputLogs' = PushBy(i, outputLogs, kinds)
           /\ invocations' =
                 [invocations EXCEPT ![i] =
                     [me EXCEPT !.pc = IF loaded THEN "calling" ELSE "returning",
                                !.module = IF loaded THEN unit ELSE 0,
                                !.pushed = me.pushed \o kinds,
                                !.logged = me.logged \o entries]]
    /\ UNCHANGED <<module, files, now>>

\* the call has settled: executeFunction logs the result and marks the
\* last line of the transcript (none when the transcript is empty)
CallArrives(i) ==
    /\ invocations[i].pc = "calling"
    /\ LET me == invocations[i]
           entry == EntryBy(i, "info", <<"Method result">>)
       IN  /\ logs' = Append(logs, entry)
           /\ outputLogs' = IF outputLogs = <<>> THEN outputLogs
                            ELSE MarkLast(outputLogs, "Success")
           /\ invocations' =
                 [invocations EXCEPT ![i] =
                     [me EXCEPT !.pc = "returning", !.logged = Append(me.logged, entry)]]
    /\ UNCHANGED <<module, files, moduleCache, now>>

\* analyseAndRun has returned: in repo mode the temporary files are
\* removed, the compiled one only if the source one was there; a failure
\* of the removal is a warning
AnalysisReturns(i) ==
    /\ invocations[i].pc = "returning"
    /\ LET me == invocations[i]
           entry == EntryBy(i, "warn", <<"Failed to cleanup temporary files">>)
           clean == Exists(files, me.sourcePath) /\ Exists(files, me.compiledPath)
       IN  IF me.kind = "repo"
           THEN /\ files' = IF Exists(files, me.sourcePath)
                            THEN unlinkSync(unlinkSync(files, me.sourcePath), me.compiledPath)
                            ELSE files
                /\ logs' = IF clean THEN logs ELSE Append(logs, entry)
                /\ invocations' =
                      [invocations EXCEPT ![i] =
                          [me EXCEPT !.pc = "respond",
                                     !.logged = IF clean THEN me.logged ELSE Append(me.logged, entry)]]
           ELSE /\ invocations' = [invocations EXCEPT ![i] = [me EXCEPT !.pc = "respond"]]
                /\ UNCHANGED <<files, logs>>
    /\ UNCHANGED <<module, outputLogs, moduleCache, now>>

\* handler returns: the success envelope with the transcript and the
\* summary of the logger, or the failure envelope with the transcript
Respond(i) ==
    /\ invocations[i].pc = "respond"
    /\ LET me == invocations[i]
           summary == getSummary(logs)
       IN  IF me.error = NoErr
           THEN /\ logs' = Append(logs, EntryBy(i, "info", <<"Fuzzing completed successfully">>))
                /\ invocations' =
                      [invocations EXCEPT ![i] =
                          [me EXCEPT !.pc = "done",
                                     !.response =
                                         [statusCode |-> 200,
                                          success |-> TRUE,
                                          message |-> <<"Fuzzing complete.">>,
                                          error |-> NoError,
                                          output |-> outputLogs,
                                          summary |-> [present |-> TRUE,
                                                       totalLogs |-> summary.total,
                                                       errors |-> summary.errors,
                                                       warnings |-> summary.warnings]]]]
           ELSE LET entry == EntryBy(i, "error", <<"Lambda handler failed">>)
                IN  /\ logs' = Append(logs, entry)
                    /\ invocations' =
                          [invocations EXCEPT ![i] =
                              [me EXCEPT !.pc = "done",
                                         !.logged = Append(me.logged, entry),
                                         !.response = createErrorResponse(me.error, outputLogs)]]
    /\ UNCHANGED <<module, outputLogs, files, moduleCache, now>>

NextConcurrent ==
    \/ Tick
    \/ \E i \in Invocations : InvokeBegin(i)
    \/ \E i \in Invocations : CodeCompile(i)
    \/ \E i \in Invocations : FetchArrives(i)
    \/ \E i \in Invocations : RepoCompile(i)
    \/ \E i \in Invocations : ImportArrives(i)
    \/ \E i \in Invocations : CallArrives(i)
    \/ \E i \in Invocations : AnalysisReturns(i)
    \/ \E i \in Invocations : Respond(i)

SpecConcurrent == InitConcurrent /\ [][NextConcurrent]_vars

\* no invocation is under way
Quiet == \A i \in Invocations : invocations[i].pc \in {"idle", "done"}

\* handler is called when no other invocation is under way
InvokeAlone(i) == Quiet /\ InvokeBegin(i)

\* the invocations one after another
NextSequential ==
    \/ Tick
    \/ \E i \in Invocations : InvokeAlone(i)
    \/ \E i \in Invocations : CodeCompile(i)
    \/ \E i \in Invocations : FetchArrives(i)
    \/ \E i \in Invocations : RepoCompile(i)
    \/ \E i \in Invocations : ImportArrives(i)
    \/ \E i \in Invocations : CallArrives(i)
    \/ \E i \in Invocations : AnalysisReturns(i)
    \/ \E i \in Invocations : Respond(i)

SpecSequential == InitConcurrent /\ [][NextSequential]_vars

\* ============================================================ properties
\* the sentinel of the synthesizer is in an argument list
ContainsSentinel(args) == \E i \in DOMAIN args : args[i].t = "null"
\* a member qualifies (it carries the method decorator) and every argument
\* list synthesized for it is free of the sentinel
Invocable(member) ==
    /\ HasMethodDecorator(member)
    /\ \A args \in MockArgLists(member.params, mockGeneratorRegistry) : ~ContainsSentinel(args)
\* the position of the transcript where the analysis under way began
AnalysisStart ==
    LET heads == {j \in DOMAIN outputLogs : outputLogs[j].kind = "fuzzingFile"}
    IN  IF heads = {} THEN 0 ELSE CHOOSE j \in heads : \A k \in heads : k <= j
\* the positions of the call lines about class c in the transcript of the
\* analysis under way
CallLines(c) ==
    {j \in DOMAIN outputLogs :
        j > AnalysisStart /\ outputLogs[j].kind = "call" /\ outputLogs[j].about.cls = c}
\* the run met no failure but throwing methods
OnlyMethodsThrew ==
    /\ thrown # <<>>
    /\ \A k \in DOMAIN ctorCalls : ctorCalls[k].ok

\* C1: continue on error. At the end of a run, for every method that threw,
\* every later invocable method of the same class was invoked on the same
\* instance, and the constructor of every later target class the module
\* exports was called.
C1_ContinueOnError ==
    pc = "done" =>
        \A k \in DOMAIN thrown :
            LET t == thrown[k]
                members == source.classes[t.about.cls].members
            IN  /\ \A j \in (t.about.method + 1)..Len(members) :
                        Invocable(members[j]) =>
                            \E c \in DOMAIN calls :
                                /\ calls[c].at = t.at
                                /\ calls[c].method = j
                                /\ calls[c].instance = t.instance
                /\ \A i \in (t.at + 1)..Len(source.exports) :
                        (IsTarget(source.exports[i])
                         /\ ResolvedSymbol(source.exports[i]) \in targetModule) =>
                            \E c \in DOMAIN ctorCalls : ctorCalls[c].at = i

\* C2: execution errors never pass the harness. A run whose only failures
\* are throwing methods ends with the success envelope: status 200 and
\* success true.
C2_ExecutionErrorsRecovered ==
    (pc = "done" /\ OnlyMethodsThrew) =>
        (response.statusCode = 200 /\ response.success)

\* C3: a method that throws an Error with message m, or the string m, has
\* its call line marked Error, followed by a line carrying m, and exactly
\* one error-level log entry about it.
C3_ThrownMessageRecorded ==
    \A k \in DOMAIN thrown :
        thrown[k].value.t \in {"object", "string"} =>
            /\ \E j \in CallLines(thrown[k].about.cls) :
                    /\ outputLogs[j].about = thrown[k].about
                    /\ outputLogs[j].mark = <<"Error">>
                    /\ j + 1 \in DOMAIN outputLogs
                    /\ outputLogs[j + 1].kind = "message"
                    /\ outputLogs[j + 1].text = thrown[k].value.message
            /\ Cardinality({i \in DOMAIN logs :
                    logs[i].level = "error" /\ logs[i].about = thrown[k].about}) = 1

\* C4: when exactly one method throws and nothing else fails, the response
\* carries a summary whose errors count is 1.
C4_OneThrowOneError ==
    (pc = "done" /\ OnlyMethodsThrew /\ Len(thrown) = 1) =>
        (response.summary.present /\ response.summary.errors = 1)

\* C5: a method whose synthesized arguments contain the sentinel is never
\* invoked. The step that synthesizes such arguments starts no invocation,
\* appends exactly one line to the transcript, the skip line of that method,
\* and leaves the number of error-level log entries unchanged.
C5_SentinelNeverInvoked ==
    [][(synthesized' # synthesized /\ ContainsSentinel(mockArgs')) =>
        /\ calls' = calls
        /\ inflight' = inflight
        /\ outputLogs' = Append(outputLogs,
                Line("skip", About(ClassName, memberIdx), <<>>, <<>>))
        /\ CountLevel(logs', "error") = CountLevel(logs, "error")]_vars

\* a method was just skipped for its sentinel argument: reached
C5_Witness ==
    /\ pc = "members"
    /\ synthesized # <<>>
    /\ ContainsSentinel(mockArgs)
    /\ outputLogs[Len(outputLogs)].kind = "skip"
    /\ calls = <<>>

\* C6: at the end of the run every instantiated class has as many recorded
\* outcomes (call lines marked Success or Error) as it has qualifying
\* methods with sentinel-free arguments.
C6_OutcomePerInvocableMethod ==
    pc = "done" =>
        \A c \in ClassNames :
            (\E i \in DOMAIN instances : instances[i] = c) =>
                Cardinality({j \in CallLines(c) :
                                outputLogs[j].mark \in {<<"Success">>, <<"Error">>}})
                  = Cardinality({j \in DOMAIN source.classes[c].members :
                                    Invocable(source.classes[c].members[j])})

\* no two invocations are in flight, and one starts only when every
\* earlier call line carries its status
InvocationsSerialized ==
    /\ Cardinality(inflight) <= 1
    /\ \A c \in ClassNames : \A j \in CallLines(c) :
            outputLogs[j].mark = <<>> => (inflight # {} /\ j = Len(outputLogs))

\* C7: calls are serialized in declaration order. At most one invocation
\* is in flight, and the call lines of a class follow the declaration
\* order of its methods, none twice.
C7_SerializedInDeclarationOrder ==
    /\ InvocationsSerialized
    /\ \A c \in ClassNames : \A i, j \in CallLines(c) :
            i < j => outputLogs[i].about.method < outputLogs[j].about.method

\* C8: a class is instantiated at most once per run. The constructor of
\* every class is called at most once and every method of it is invoked at
\* most once, also when the class is exported under several names.
C8_InstantiatedAtMostOnce ==
    /\ \A c \in ClassNames :
            Cardinality({k \in DOMAIN ctorCalls : ctorCalls[k].cls = c}) <= 1
    /\ \A i, j \in DOMAIN calls :
            (calls[i].cls = calls[j].cls /\ calls[i].method = calls[j].method) => i = j

\* C9: all invoked methods of a class run against the one instance of that
\* class: two invocations of the same class are bound to the same instance.
C9_SingleInstancePerClass ==
    \A i, j \in DOMAIN calls :
        calls[i].cls = calls[j].cls => calls[i].instance = calls[j].instance

\* the export at position i met a class-level failure: its constructor
\* threw, or the loop passed it while the module did not export the class
ConstructorThrewAt(i) == \E k \in DOMAIN ctorCalls : ctorCalls[k].at = i /\ ~ctorCalls[k].ok
MissingAt(i) ==
    /\ i < exportIdx
    /\ IsTarget(source.exports[i])
    /\ ResolvedSymbol(source.exports[i]) \notin targetModule

\* C10: when the constructor of a target class throws, or the module lacks
\* the class, no argument is synthesized for its methods and none is
\* invoked, the transcript holds the class-level line, and the loop has
\* moved on to the next export.
C10_ClassFailureSkipsClass ==
    \A i \in DOMAIN source.exports :
        (ConstructorThrewAt(i) \/ MissingAt(i)) =>
            /\ \A k \in DOMAIN synthesized : synthesized[k].at # i
            /\ \A k \in DOMAIN calls : calls[k].at # i
            /\ \E j \in DOMAIN outputLogs :
                    /\ outputLogs[j].kind \in {"instantiateFailed", "classNotFound"}
                    /\ outputLogs[j].about.cls = ResolvedSymbol(source.exports[i])
            /\ exportIdx > i
            /\ pc \in {"loop", "members", "awaiting", "respond", "done"}

\* C11: a missing class is logged as a warning. For every target class the
\* loop has passed and the imported module does not export, the logger
\* holds a warn-level entry about that class (so that the summary counts
\* it as a warning) and no error-level entry about it.
C11_MissingClassWarned ==
    \A i \in DOMAIN source.exports :
        MissingAt(i) =>
            /\ \E k \in DOMAIN logs :
                    /\ logs[k].level = "warn"
                    /\ logs[k].about.cls = ResolvedSymbol(source.exports[i])
            /\ \A k \in DOMAIN logs :
                    logs[k].about.cls = ResolvedSymbol(source.exports[i]) =>
                        logs[k].level # "error"

\* the import of some compiled module has rejected
ImportFailed == \E k \in DOMAIN effects : effects[k].op = "importFailed"

\* C12: an import failure aborts the invocation. Once the import of the
\* compiled module has rejected, nothing more of the analysis runs: the
\* invocation is on its way to the failure envelope, which is of the import
\* kind (status 422, code IMPORT_ERROR).
C12_ImportFailureAborts ==
    ImportFailed =>
        /\ pc \in {"catch", "done"}
        /\ pc = "done" =>
              /\ ~response.success
              /\ response.statusCode = 422
              /\ response.error.code = "IMPORT_ERROR"

\* the status the error taxonomy gives an error code
StatusOfKind(code) ==
    CASE code \in {"VALIDATION_ERROR", "INVALID_INPUT"} -> 400
      [] code \in {"COMPILATION_ERROR", "IMPORT_ERROR", "EXECUTION_ERROR"} -> 422
      [] code = "RESOURCE_ERROR" -> 503
      [] code = "TIMEOUT_ERROR" -> 408
      [] OTHER -> 500

\* C13: the mapping of createErrorResponse is total and exact. The envelope
\* made of a FuzzerError has the status of its kind (validation 400;
\* compilation, import and execution 422; resource 503; timeout 408;
\* unknown 500) and carries its code; the envelope made of any other error
\* has status 500 and code UNKNOWN_ERROR; no envelope has status 200.
C13_StatusMappingExact ==
    pc = "done" =>
        /\ response.statusCode # 200
        /\ ~response.success
        /\ IF IsFuzzerError(err)
           THEN /\ response.statusCode = StatusOfKind(err.code)
                /\ response.error.code = err.code
           ELSE /\ response.statusCode = 500
                /\ response.error.code = "UNKNOWN_ERROR"

\* the envelope of an ExecutionError was made, with status 422: reached
C13_Witness ==
    /\ pc = "done"
    /\ err.cls = "ExecutionError"
    /\ response.statusCode = 422
    /\ response.error.code = "EXECUTION_ERROR"

\* the invocation failed with an error of the validation kind
ValidationFailure == pc \in {"catch", "done"} /\ err.code = "VALIDATION_ERROR"

\* C14: validation errors fail fast. When the invocation fails with an
\* error of the validation kind, no request was sent to GitHub, no file was
\* written, no compile was started and no module was imported.
C14_ValidationFailsFast == ValidationFailure => effects = <<>>

\* a repo request is rejected by the last validation of all, the one of
\* its file path, and the failure envelope is returned: reached
C14_Witness ==
    /\ pc = "done"
    /\ response.statusCode = 400
    /\ response.error.code = "VALIDATION_ERROR"
    /\ BodyError(request) = NoErr
    /\ InRepoMode(request)
    /\ validateGitHubUrl(ValidatedBody(request).repoUrl) = NoErr
    /\ effects = <<>>

\* C15: a failure never discards partial progress. The output of a failure
\* envelope is the transcript as it stood when the failure reached
\* handler's catch block: the lines appended during this invocation, in
\* their order, and no line of an earlier invocation.
C15_FailureKeepsTranscript ==
    (pc = "done" /\ ~response.success) =>
        /\ response.output = outputLogs
        /\ \A j \in DOMAIN response.output : response.output[j].kind # "earlier"
        /\ thrown # <<>> =>
              /\ response.output # <<>>
              /\ response.output[Len(response.output)].kind = "message"
              /\ response.output[Len(response.output)].about = thrown[Len(thrown)].about

\* a method threw after lines were appended, and the failure envelope was
\* returned with them: reached
C15_Witness ==
    /\ pc = "done"
    /\ ~response.success
    /\ thrown # <<>>
    /\ Len(response.output) > 5
    /\ \E j \in DOMAIN response.output : response.output[j].kind = "instantiated"

\* the statuses of a failure
FailureStatuses == {400, 408, 422, 500, 503}

CodeModeRequest ==
    request.json = "object" /\ request.mode \in {JsUndefined, JsString(<<"code">>)}
\* the body of the request is an object in repo mode
RepoModeRequest == request.json = "object" /\ request.mode = JsString(<<"repo">>)
\* a string of at least 10 characters
CodeString(value) == value.t = "string" /\ StringLength(value.s) >= 10
\* a string of the form https://github.com/<owner>/<repo>
RepoUrlString(value) ==
    /\ value.t = "string"
    /\ \E owner, name \in {"owner", "repo", ".."} : value.s = <<GitHubPrefix, owner, "/", name>>
\* handler rejected the request as invalid
RejectedAsInvalid ==
    /\ pc \in {"catch", "done"}
    /\ err.code = "VALIDATION_ERROR"
    /\ pc = "done" => (response.statusCode = 400 /\ response.error.code = "VALIDATION_ERROR")

\* C17 as stated: once handler has started, a request whose body is no
\* JSON, or that is in code mode without a code string of at least 10
\* characters, or in repo mode without a repoUrl of the form
\* https://github.com/<owner>/<repo>, is rejected with status 400 and code
\* VALIDATION_ERROR.
C17_InvalidRequestRejected ==
    (/\ pc # "idle"
     /\ \/ request.json = "unparseable"
        \/ CodeModeRequest /\ ~CodeString(request.code)
        \/ RepoModeRequest /\ ~RepoUrlString(request.repoUrl))
    => RejectedAsInvalid

\* C17 amended: the same, where the repoUrl a repo request must have is
\* one that is of that form once sanitizeInput has stripped and trimmed it.
C17_UnsanitizableRequestRejected ==
    (/\ pc # "idle"
     /\ \/ request.json = "unparseable"
        \/ CodeModeRequest /\ ~CodeString(request.code)
        \/ RepoModeRequest /\ ~RepoUrlString(sanitizeInput(request.repoUrl)))
    => RejectedAsInvalid

\* a repo request whose repoUrl names an owner and no repository got the
\* failure envelope: reached
C17_Witness ==
    /\ pc = "done"
    /\ RepoModeRequest
    /\ request.repoUrl = JsString(<<GitHubPrefix, "owner">>)
    /\ response.statusCode = 400
    /\ response.error.code = "VALIDATION_ERROR"

\* the compiles made so far, as positions of the history of effects
Compiles == {k \in DOMAIN effects : effects[k].op = "compile"}
\* the diagnostics a compile produced, those of the program first
Produced(k) == effects[k].compile.preEmit \o effects[k].compile.emit
\* text is what the claim wants made of diagnostic d: the message, with the
\* file and the position counted from 1 when d has a file
Rendered(text, d) ==
    /\ text.message = d.message
    /\ text.file = d.file
    /\ d.file => (text.line = d.line + 1 /\ text.character = d.character + 1)

\* C18: in code mode a skipped emit is fatal. After it nothing of
\* analyseAndRun runs (no line of its head, no import), and the envelope
\* returned has status 422, code COMPILATION_ERROR, type CompilationError
\* and as details the full list of diagnostics, each rendered with its
\* position counted from 1, or as its message alone.
C18_SkippedEmitIsFatal ==
    \A k \in Compiles :
        (~InRepoMode(request) /\ effects[k].compile.emitSkipped) =>
            /\ pc \in {"catch", "done"}
            /\ \A j \in DOMAIN effects : effects[j].op \notin {"import", "importFailed"}
            /\ \A j \in DOMAIN outputLogs : outputLogs[j].kind # "fuzzingFile"
            /\ pc = "done" =>
                  /\ response.statusCode = 422
                  /\ response.error.code = "COMPILATION_ERROR"
                  /\ response.error.type = "CompilationError"
                  /\ Len(response.error.details) = Len(Produced(k))
                  /\ \A i \in DOMAIN Produced(k) :
                        Rendered(response.error.details[i], Produced(k)[i])

\* the envelope of a skipped emit with two diagnostics, one of them with a
\* file, was returned: reached
C18_Witness ==
    /\ pc = "done"
    /\ ~InRepoMode(request)
    /\ response.statusCode = 422
    /\ Len(response.error.details) = 2
    /\ response.error.details[1].file
    /\ response.error.details[1].line = 7

\* the files whose content was fetched, as positions of the search result
FetchedFiles == {fetched[i] : i \in DOMAIN fetched}
\* some effect of the kind was made for the unit
Did(op, unit) == \E k \in DOMAIN effects : effects[k].op = op /\ effects[k].unit = unit
\* the transcript reports the diagnostics of compile k
ReportedInTranscript(k) ==
    \E j \in DOMAIN outputLogs :
        /\ outputLogs[j].kind = "compileErrors"
        /\ Len(outputLogs[j].diagnostics) = Len(Produced(k))
        /\ \A i \in DOMAIN Produced(k) : Rendered(outputLogs[j].diagnostics[i], Produced(k)[i])

\* C19: in a multi-file repo run a compilation failure aborts only its
\* unit. At the end of a run in which the compile of some file skipped the
\* emit, every fetched file was compiled; each one that compiled was
\* imported and analysed to its end; each one that did not has its
\* diagnostics in the transcript.
C19_CompileFailureAbortsOnlyUnit ==
    (/\ pc = "done"
     /\ InRepoMode(request)
     /\ \E k \in Compiles : effects[k].compile.emitSkipped)
    => \A unit \in FetchedFiles :
          \E k \in Compiles :
              /\ effects[k].unit = unit
              /\ IF effects[k].compile.emitSkipped
                 THEN ReportedInTranscript(k)
                 ELSE (Did("import", unit) \/ Did("importFailed", unit)) /\ Did("unlink", unit)

\* the response shows diagnostic d
InResponse(d) ==
    \/ \E j \in DOMAIN response.error.details : Rendered(response.error.details[j], d)
    \/ \E j \in DOMAIN response.output :
          \E i \in DOMAIN response.output[j].diagnostics :
              Rendered(response.output[j].diagnostics[i], d)

\* C20: diagnostics are never silently dropped. Every diagnostic of every
\* compile of the invocation, whether it emitted or not, is in the
\* response: in the details of its error or in its output.
C20_DiagnosticsReported ==
    pc = "done" =>
        \A k \in Compiles : \A i \in DOMAIN Produced(k) : InResponse(Produced(k)[i])

\* the positions of the entries of a level
EntriesOfLevel(level) == {i \in DOMAIN logs : logs[i].level = level}

\* C25: whatever calls of log were made since the last clear, getSummary
\* gives the number of entries as total, the number of entries of level
\* error as errors and the number of entries of level warn as warnings, so
\* errors + warnings <= total.
C25_SummaryCountsBySeverity ==
    LET summary == getSummary(logs)
    IN  /\ summary.total = Len(logs)
        /\ summary.errors = Cardinality(EntriesOfLevel("error"))
        /\ summary.warnings = Cardinality(EntriesOfLevel("warn"))
        /\ summary.errors + summary.warnings <= summary.total

\* after a clear, entries of every level were logged
C25_Witness ==
    /\ logs # <<>>
    /\ logs[1].message = <<"message">>
    /\ getSummary(logs).errors >= 1
    /\ getSummary(logs).warnings >= 1
    /\ getSummary(logs).total > getSummary(logs).errors + getSummary(logs).warnings

\* the transcript before is the beginning of the transcript after
IsPrefix(before, after) ==
    /\ Len(before) <= Len(after)
    /\ \A i \in DOMAIN before : after[i] = before[i]

\* C24: during an invocation the transcript only grows at its end: no step
\* after the reset at the start changes or removes a line that was
\* appended, so the transcript before a step is a prefix of the one after.
C24_TranscriptAppendOnly ==
    [][pc # "idle" => IsPrefix(outputLogs, outputLogs')]_vars

\* invocation i is under way: handler was called and has not returned
Active(i) == invocations[i].pc \notin {"idle", "done"}

\* C21: two invocations under way at once never have the same temporary
\* source path, the same compiled path or the same import specifier, in
\* code mode and in repo mode, and so each compiles and imports its own
\* code only.
C21_ArtifactsNeverShared ==
    \A i, j \in Invocations :
        i # j /\ Active(i) /\ Active(j) =>
            LET a == invocations[i]
                b == invocations[j]
            IN  /\ a.sourcePath # NoPath /\ b.sourcePath # NoPath => a.sourcePath # b.sourcePath
                /\ a.compiledPath # NoPath /\ b.compiledPath # NoPath => a.compiledPath # b.compiledPath
                /\ a.importId # NoSpecifier /\ b.importId # NoSpecifier => a.importId # b.importId
                /\ a.ast \in {0, i}
                /\ a.module \in {0, i}

\* the kinds of the lines of a transcript
KindsOf(lines) == [k \in DOMAIN lines |-> lines[k].kind]
\* the summary a response carries is the one of these entries
SummaryOf(r, entries) ==
    r.summary.present =>
        /\ r.summary.totalLogs = getSummary(entries).total
        /\ r.summary.errors = getSummary(entries).errors
        /\ r.summary.warnings = getSummary(entries).warnings

\* C22: when invocations interleave at their awaits, the output of each
\* response holds the lines that invocation pushed, all of them and no
\* others, and its summary counts the entries that invocation logged and
\* no others.
C22_ReportNeverShared ==
    \A i \in Invocations :
        invocations[i].pc = "done" =>
            LET me == invocations[i]
            IN  /\ \A k \in DOMAIN me.response.output : me.response.output[k].by = i
                /\ KindsOf(me.response.output) = me.pushed
                /\ SummaryOf(me.response, me.logged)

\* C23: when the invocations run one after another, the output of a
\* response holds no line another invocation pushed and its summary counts
\* no entry another invocation logged (nor an entry of the module's load).
C23_ReportFreshPerInvocation ==
    \A i \in Invocations :
        invocations[i].pc = "done" =>
            LET r == invocations[i].response
            IN  /\ \A k \in DOMAIN r.output : r.output[k].by = i
                /\ Len(r.output) <= Len(invocations[i].pushed)
                /\ SummaryOf(r, invocations[i].logged)

\* both invocations have returned a success envelope with a transcript
C23_Witness ==
    \A i \in Invocations :
        /\ invocations[i].pc = "done"
        /\ invocations[i].response.success
        /\ invocations[i].response.output # <<>>
        /\ invocations[i].response.summary.totalLogs >= 2

\* the keyword kinds generateMockValue has a case for
KeywordKinds == {StringKeyword, NumberKeyword, BooleanKeyword}
\* the positions of the parameters of an entry of synthesized
Positions(e) == DOMAIN e.params
\* a generator is registered under the text of the type
HasGenerator(type) == OwnGenerators(mockGeneratorRegistry, type.text) # {}

C27_UnregisteredGivesSentinel ==
    \A k \in DOMAIN synthesized :
        \A j \in Positions(synthesized[k]) :
            LET type == synthesized[k].params[j]
            IN  (TypeKindOf(type) \notin KeywordKinds /\ ~HasGenerator(type)) =>
                    synthesized[k].args[j] = JsNull

\* C28: generateMockValue never throws: no list of arguments ends with a
\* throw of the synthesizer, whatever the type and whatever the generator.
C28_SynthesizerNeverThrows ==
    ~ArgsRaised(mockArgs)

\* the method of an entry of synthesized was invoked
Invoked(e) == \E c \in DOMAIN calls : calls[c].at = e.at /\ calls[c].method = e.method

\* C29: a method is skipped only when some parameter had neither a keyword
\* type nor a registered generator; a method whose every argument came from
\* a generator or a keyword type is invoked, also when a generator returned
\* null.
C29_NullIsNoSentinel ==
    \A k \in DOMAIN synthesized :
        LET e == synthesized[k]
        IN  (\A j \in Positions(e) :
                TypeKindOf(e.params[j]) \in KeywordKinds \/ HasGenerator(e.params[j]))
            => (pc = "members" /\ k = Len(synthesized) /\ memberIdx = e.method) \/ Invoked(e)

\* C30: whenever an argument synthesized for a unit came from a registered
\* generator, that generator was registered for the module loaded for the
\* same unit, and that module satisfied the rule's precondition: it exports
\* the name and, for Player, PrivateKey is there.
C30_RegistrationGuardedByLoad ==
    \A k \in DOMAIN synthesized :
        \A j \in Positions(synthesized[k]) :
            LET e == synthesized[k]
            IN  \A g \in OwnGenerators(mockGeneratorRegistry, e.params[j].text) :
                    /\ g.by = e.unit
                    /\ g.name \in e.module
                    /\ g.name = "Player" => PrivateKey

\* no exported symbol of the source resolves to a class whose heritage
\* clause names SmartContract
NoTargets == \A i \in DOMAIN source.exports : ~IsTarget(source.exports[i])
\* the transcript has a line saying that no target was found
NotesNoTargets == \E j \in DOMAIN outputLogs : outputLogs[j].kind = "noTargets"

\* C31: a source without targets gives a clean report that says so. When a
\* code-mode invocation whose source compiled and exports no class extending
\* the marker has returned, the envelope is the success one with
\* summary.errors = 0, no constructor was called, no method was invoked, and
\* the transcript holds a line noting that no targets were found.
C31_NoTargetsNoted ==
    (/\ pc = "done"
     /\ ~InRepoMode(request)
     /\ \E k \in Compiles : ~effects[k].compile.emitSkipped
     /\ NoTargets) =>
        /\ response.success
        /\ response.summary.errors = 0
        /\ ctorCalls = <<>>
        /\ calls = <<>>
        /\ NotesNoTargets

\* the temporary file written by effect k was removed afterwards
Discarded(k) ==
    \E j \in DOMAIN effects :
        /\ j > k
        /\ effects[j].op = "unlink"
        /\ effects[j].unit = effects[k].unit

\* C32: the artifacts are discarded after use. When a handler invocation
\* has ended, in the success envelope or in a failure one, every temporary
\* source file it wrote (and with it the artifact compiled from it) has
\* been removed.
C32_ArtifactsDiscarded ==
    pc \in {"done", "rejected"} =>
        \A k \in DOMAIN effects : effects[k].op = "write" => Discarded(k)

\* C33: a body that is JSON but no object is a validation error. When the
\* handler has answered a request whose body parses to null, a number, a
\* string or an array, the envelope has status 400 and code
\* VALIDATION_ERROR.
C33_NonObjectBodyRejected ==
    (pc \in {"done", "rejected"} /\ request.json \in NonObjects) =>
        /\ pc = "done"
        /\ ~response.success
        /\ response.statusCode = 400
        /\ response.error.code = "VALIDATION_ERROR"

\* C34: one status marker per invoked method. When an invocation settles,
\* its call line (the last line of the transcript while it is awaited)
\* carries exactly one marker, and the marker is Success exactly when the
\* method did not throw.
C34_OneMarkerPerCall ==
    [][pc = "awaiting" =>
          LET line == outputLogs'[Len(outputLogs)]
          IN  /\ Len(line.mark) = 1
              /\ line.mark = <<"Success">> <=> thrown' = thrown]_vars

\* ------------------------------------------- safeExecute within safeExecute
\* the deepest nesting of safeExecute calls followed
MaxDepth == 3
\* what the innermost operation throws: the errors of ErrorValues, a string
\* and null
Operands == ErrorValues \cup {ThrownString(<<"boom">>), ThrownNull}

\* the innermost operation has thrown; thrown keeps what it threw
InitNesting ==
    /\ request = NoFields("unparseable")
    /\ repo = NoRepo
    /\ source = EmptySource
    /\ pc = "thrown"
    /\ outputLogs = <<>>
    /\ logs = <<LogEntry("info", <<"Lambda handler started">>, Nothing)>>
    /\ mockGeneratorRegistry = {}
    /\ targetModule = {}
    /\ exportIdx = 0
    /\ memberIdx = 0
    /\ instance = 0
    /\ mockArgs = <<>>
    /\ inflight = {}
    /\ err \in Operands
    /\ response = NoResponse
    /\ ctorCalls = <<>>
    /\ instances = <<>>
    /\ synthesized = <<>>
    /\ calls = <<>>
    /\ thrown = <<[about |-> Nothing, value |-> err, at |-> 0, instance |-> 0]>>
    /\ fileIdx = 0
    /\ fetched = <<>>
    /\ effects = <<>>
    /\ PrivateKey = FALSE
    /\ invocations = <<>>
    /\ files = {}
    /\ moduleCache = {}
    /\ now = 0

\* the number of safeExecute calls the error has left
Depth == Len(effects)

\* the error leaves one more safeExecute, through its catch block
SafeExecuteCatches ==
    /\ pc = "thrown"
    /\ Depth < MaxDepth
    /\ err' = SafeExecuteThrown(err)
    /\ effects' = Append(effects, Effect("safeExecute", 0))
    /\ UNCHANGED <<PrivateKey, invocations, files, moduleCache, now, request, repo, fileIdx,
                   fetched, source, pc, outputLogs, logs, mockGeneratorRegistry, targetModule,
                   exportIdx, memberIdx, instance, mockArgs, inflight, response, ctorCalls,
                   instances, synthesized, calls, thrown>>

\* the outermost safeExecute was left: the error is caught by handler
ReachesHandler ==
    /\ pc = "thrown"
    /\ Depth >= 1
    /\ pc' = "catch"
    /\ UNCHANGED <<PrivateKey, invocations, files, moduleCache, now, request, repo, fileIdx,
                   fetched, effects, source, outputLogs, logs, mockGeneratorRegistry,
                   targetModule, exportIdx, memberIdx, instance, mockArgs, inflight, err,
                   response, ctorCalls, instances, synthesized, calls, thrown>>

NextNesting == SafeExecuteCatches \/ ReachesHandler \/ HandlerCatch

SpecNesting == InitNesting /\ [][NextNesting]_vars

\* C35: safeExecute keeps the kind of an error through any nesting. Once
\* what an operation threw has left one or more safeExecute calls, a
\* FuzzerError is still the very error thrown, and anything else is the
\* FuzzerError with code UNKNOWN_ERROR the innermost call made of it (further
\* calls change nothing); the envelope handler returns has the code of that
\* error and the status of that code.
C35_NestingKeepsKind ==
    (thrown # <<>> /\ Depth >= 1) =>
        LET original == thrown[1].value
            kept == IF IsFuzzerError(original) THEN original
                    ELSE SafeExecuteThrown(original)
        IN  /\ err = kept
            /\ IsFuzzerError(original) => err.code = original.code
            /\ ~IsFuzzerError(original) =>
                    err.cls = "FuzzerError" /\ err.code = "UNKNOWN_ERROR"
            /\ pc = "done" =>
                    /\ response.error.code = kept.code
                    /\ response.statusCode = getStatusCodeForError(kept.code)

\* ------------------------------------------- a search with many results
\* the largest number of files the search lists
MaxFound == 6
\* the files of such a result: two that cannot be fetched and one that is
\* fetched, compiles and exports nothing
FoundFiles ==
    {RepoFile("notFound", NoCompile, EmptySource),
     RepoFile("rejects", NoCompile, EmptySource),
     RepoFile("ok", NoCompile, EmptySource)}
SearchResults ==
    {[search |-> s, files |-> <<>>] : s \in {"forbidden", "rejects"}}
    \cup {[search |-> "ok", files |-> f] : f \in SeqUpTo(FoundFiles, MaxFound)}

InitSearch ==
    /\ request = SearchRequest
    /\ repo \in SearchResults
    /\ source = EmptySource
    /\ pc = "idle"
    /\ outputLogs = <<>>
    /\ logs = O1jsLoaded
    /\ mockGeneratorRegistry = {}
    /\ targetModule = {}
    /\ exportIdx = 0
    /\ memberIdx = 0
    /\ instance = 0
    /\ mockArgs = <<>>
    /\ inflight = {}
    /\ err = NoErr
    /\ response = NoResponse
    /\ ctorCalls = <<>>
    /\ instances = <<>>
    /\ synthesized = <<>>
    /\ calls = <<>>
    /\ thrown = <<>>
    /\ fileIdx = 0
    /\ fetched = <<>>
    /\ effects = <<>>
    /\ PrivateKey = TRUE
    /\ invocations = <<>>
    /\ files = {}
    /\ moduleCache = {}
    /\ now = 0

\* the run of the handler over such a result
NextSearch ==
    \/ HandlerStart
    \/ SearchSettles
    \/ FetchSettles
    \/ ProcessFile
    \/ FilesDone
    \/ ImportModule
    \/ LoopDone
    \/ HandlerSuccess
    \/ HandlerCatch

SpecSearch == InitSearch /\ [][NextSearch]_vars

\* the fetches made so far, as positions of the history of effects
Fetches == {k \in DOMAIN effects : effects[k].op = "fetch"}
\* the fetching of the candidates is over
FetchingOver == pc \in {"files", "import", "loop", "respond", "done"} \/ (pc = "catch" /\ fetched = <<>> /\ Fetches # {})
\* the logger holds the warning about the failed fetch of candidate i
FetchWarned(i) ==
    \E k \in DOMAIN logs :
        /\ logs[k].level = "warn"
        /\ logs[k].message = <<"Failed to fetch ", FileNames[i]>>

\* C36: the candidates of a search. In repo mode without a filePath only
\* the first five files of the search result are fetched, each once; when
\* the fetching is over each of them was tried, each failure is a warning of
\* the logger and each success is among the files to process, all of which
\* are processed before the success envelope; and the envelope is the one of
\* a resource error (status 503) exactly when the search failed or none of
\* the candidates could be fetched.
C36_CandidatesOfSearch ==
    /\ \A k \in Fetches : effects[k].unit \in 1..FilesToFetch
    /\ \A k, j \in Fetches : effects[k].unit = effects[j].unit => k = j
    /\ FetchingOver =>
          \A i \in 1..FilesToFetch :
              /\ \E k \in Fetches : effects[k].unit = i
              /\ FetchError(i) # NoErr => FetchWarned(i)
              /\ FetchError(i) = NoErr => \E j \in DOMAIN fetched : fetched[j] = i
    /\ (pc = "done" /\ response.success) =>
          \A j \in DOMAIN fetched : Did("write", fetched[j]) /\ Did("import", fetched[j])
    /\ pc = "done" =>
          ((response.statusCode = 503 /\ response.error.code = "RESOURCE_ERROR")
              <=> (SearchError # NoErr \/ \A i \in 1..FilesToFetch : FetchError(i) # NoErr))

\* what handler hands to processGitHubRepo, and so to the requests made
RepoUrlOfFetch == ValidatedBody(request).repoUrl
FilePathOfFetch == ValidatedBody(request).filePath
\* a request to GitHub was made
Requested == \E k \in DOMAIN effects : effects[k].op \in {"fetch", "search"}
\* the request made first is the fetch of the file the request names
FetchedByPath == effects # <<>> /\ effects[1].op = "fetch" /\ HasFilePath(request)

\* C37: what reaches GitHub is well formed. Whenever a request to GitHub
\* was made, the repoUrl it was made with is a string of the form
\* https://github.com/<owner>/<repo> without '..'; and when it is the fetch
\* of the file the request names, the path is a non-empty string of the
\* characters a-z A-Z 0-9 / _ . - without '..' that starts neither with '/'
\* nor with a backslash.
C37_FetchedNamesWellFormed ==
    Requested =>
        /\ RepoUrlOfFetch.t = "string"
        /\ GitHubPattern(RepoUrlOfFetch.s)
        /\ \A i \in DOMAIN RepoUrlOfFetch.s : RepoUrlOfFetch.s[i] # ".."
        /\ FetchedByPath =>
              /\ FilePathOfFetch.t = "string"
              /\ FilePathOfFetch.s # <<>>
              /\ \A i \in DOMAIN FilePathOfFetch.s :
                    PathChars(FilePathOfFetch.s[i]) /\ FilePathOfFetch.s[i] # ".."
              /\ FilePathOfFetch.s[1] \notin {"/", "\\"}

\* a named file is fetched for a request whose repoUrl and filePath were
\* both changed by sanitizeInput
C37_Witness ==
    /\ FetchedByPath
    /\ request.filePath # FilePathOfFetch
    /\ request.repoUrl # RepoUrlOfFetch

\* ------------------------------------------- the handler when all settles
\* every request, compile, import and invoked method settles in the end,
\* and the steps of the handler itself are taken: no step that can be taken
\* is put off for ever
Settling == WF_vars(Next)

SpecSettling == Init /\ [][Next]_vars /\ Settling

\* C38: termination. When everything the handler awaits settles, the
\* invocation returns its envelope in the end. While an invoked method is
\* awaited nothing is returned and the only step there is, is the settling
\* of that method (no timeout cuts the wait short): if it never settles the
\* invocation never returns.
C38_Termination ==
    /\ <>(pc = "done" /\ response # NoResponse)
    /\ [](inflight # {} => (pc = "awaiting" /\ response = NoResponse))
    /\ [][pc = "awaiting" => (inflight # {} /\ inflight' = {})]_vars

\* an envelope is returned by an invocation that awaited a method
C38_Witness == pc = "done" /\ response # NoResponse /\ calls # <<>>

====
